---------------------------- MODULE Spec2Model ----------------------------
(***************************************************************************)
(* A model of libzmx: the ZIP central-directory codec, the archive locator *)
(* (zip_get_files) and the in-place attribute patcher                      *)
(* (zip_make_executable / zip_make_not_executable).                        *)
(*                                                                         *)
(* Representation of the program's values:                                 *)
(*   - a byte is a number in 0..255; a stream is a record                  *)
(*     [data |-> sequence of bytes, pos |-> cursor], offset 0 being        *)
(*     data[1];                                                            *)
(*   - u16 is a number in 0..65535;                                        *)
(*   - u32 and u64 are little-endian tuples of 16-bit limbs (2 and 4       *)
(*     limbs): their values do not fit the model checker's integers;       *)
(*   - i32 is kept as the u32 bit pattern it is cast from.                 *)
(***************************************************************************)
EXTENDS Integers, Sequences, FiniteSets, TLC

VARIABLES
    file_on_disk,     \* the archive the caller holds open: its bytes and cursor
    initial_length,   \* the archive's length when it was opened
    last,             \* the last call: its name, argument, result, and the
                      \* archive's bytes before it
    sequel            \* how the last call follows the call before it

vars == <<file_on_disk, initial_length, last, sequel>>

---------------------------------------------------------------------------
(* Fixed-width integers                                                    *)

RECURSIVE BitAnd(_, _)
BitAnd(a, b) ==
    IF a = 0 \/ b = 0 THEN 0
    ELSE (a % 2) * (b % 2) + 2 * BitAnd(a \div 2, b \div 2)

RECURSIVE BitOr(_, _)
BitOr(a, b) ==
    IF a = 0 THEN b
    ELSE IF b = 0 THEN a
    ELSE (IF a % 2 = 1 \/ b % 2 = 1 THEN 1 ELSE 0) + 2 * BitOr(a \div 2, b \div 2)

RECURSIVE BitXor(_, _)
BitXor(a, b) ==
    IF a = 0 THEN b
    ELSE IF b = 0 THEN a
    ELSE ((a + b) % 2) + 2 * BitXor(a \div 2, b \div 2)

\* u16::MAX, and the u32 / u64 values with every bit set
U16_MAX == 65535
U32_MAX == <<U16_MAX, U16_MAX>>
U64_MAX == <<U16_MAX, U16_MAX, U16_MAX, U16_MAX>>

\* a literal below 2^16 as a u32 / u64
U32(n) == <<n, 0>>
U64(n) == <<n, 0, 0, 0>>

U32And(a, b) == <<BitAnd(a[1], b[1]), BitAnd(a[2], b[2])>>
U32Or(a, b)  == <<BitOr(a[1], b[1]), BitOr(a[2], b[2])>>
U32Xor(a, b) == <<BitXor(a[1], b[1]), BitXor(a[2], b[2])>>
\* !x on a u32
U32Not(a)    == U32Xor(a, U32_MAX)
\* x << 16 and x >> 16 on a u32
U32Shl16(a)  == <<0, a[1]>>
U32Shr16(a)  == <<a[2], 0>>

\* u64::from(u32), the `.into()` of zip_get_files
U64FromU32(a) == <<a[1], a[2], 0, 0>>

---------------------------------------------------------------------------
(* The stream: std::io::{Read, Seek, Write} on a file opened read+write    *)

\* A stream position that no file of the model reaches: every offset at or
\* beyond it behaves alike (reads there fail, nothing is written there).
FarPos == 1000000

\* the position a u64 names
PosOfU64(v) ==
    IF v[2] = 0 /\ v[3] = 0 /\ v[4] = 0 THEN v[1] ELSE FarPos

\* data: the bytes of the file; pos: the cursor; writes: how many writes
\* the stream has passed on to the file since it was handed to the call
Stream(data, pos) == [data |-> data, pos |-> pos, writes |-> 0]

\* Result<T, Error>: res is "Ok" or the error's kind; s is the stream as the
\* call left it; v is the value of an Ok
Ok(s, v)    == [res |-> "Ok", s |-> s, v |-> v]
Err(s, e)   == [res |-> e, s |-> s, v |-> <<>>]
IsOk(r)     == r.res = "Ok"
\* the `?` operator on a failed result: the same error, with what it
\* carries
Fail(r)     == [res |-> r.res, s |-> r.s, v |-> r.v]
\* Error::Io(std::io::Error)
IoErr(s)    == Err(s, "Io")

\* seek(SeekFrom::Start(n))
seek_start(s, n) == Ok([s EXCEPT !.pos = n], n)

\* seek(SeekFrom::Current(d)): an error when the result would be negative
seek_current(s, d) ==
    IF s.pos + d < 0 THEN IoErr(s)
    ELSE Ok([s EXCEPT !.pos = s.pos + d], s.pos + d)

\* seek(SeekFrom::End(d))
seek_end(s, d) ==
    IF Len(s.data) + d < 0 THEN IoErr(s)
    ELSE Ok([s EXCEPT !.pos = Len(s.data) + d], Len(s.data) + d)

\* A faulty variant of read_exact, as `read` used in its place would behave:
\* a short read succeeds, the missing bytes left zero.
read_exact_short(s, n) ==
    Ok([s EXCEPT !.pos = s.pos + n],
       [i \in 1..n |-> IF s.pos + i <= Len(s.data) THEN s.data[s.pos + i] ELSE 0])

\* read_exact of n bytes: all n bytes, or UnexpectedEof with the cursor at
\* the end of what could be read
read_exact(s, n) ==
    IF s.pos + n <= Len(s.data)
    THEN Ok([s EXCEPT !.pos = s.pos + n], SubSeq(s.data, s.pos + 1, s.pos + n))
    ELSE IoErr([s EXCEPT !.pos = IF s.pos > Len(s.data) THEN s.pos ELSE Len(s.data)])

Zeros(n) == [i \in 1..n |-> 0]

\* write_all: overwrites at the cursor, extending the file (zero-filled gap)
\* when the cursor is at or beyond its end
write_all(s, bytes) ==
    LET n   == Len(bytes)
        len == Len(s.data)
    IN Ok([data |-> IF s.pos >= len
                    THEN s.data \o Zeros(s.pos - len) \o bytes
                    ELSE SubSeq(s.data, 1, s.pos) \o bytes
                             \o SubSeq(s.data, s.pos + n + 1, len),
           pos  |-> s.pos + n,
           writes |-> s.writes + 1], <<>>)

---------------------------------------------------------------------------
(* io_ext: fixed-width little-endian reads and writes                      *)

\* u16::from_le_bytes, u32::from_le_bytes, u64::from_le_bytes
u16_from_le_bytes(b) == b[1] + 256 * b[2]
u32_from_le_bytes(b) == <<b[1] + 256 * b[2], b[3] + 256 * b[4]>>
u64_from_le_bytes(b) ==
    <<b[1] + 256 * b[2], b[3] + 256 * b[4], b[5] + 256 * b[6], b[7] + 256 * b[8]>>

\* to_le_bytes
u16_to_le_bytes(v) == <<v % 256, v \div 256>>
u32_to_le_bytes(v) == u16_to_le_bytes(v[1]) \o u16_to_le_bytes(v[2])
u64_to_le_bytes(v) ==
    u16_to_le_bytes(v[1]) \o u16_to_le_bytes(v[2])
        \o u16_to_le_bytes(v[3]) \o u16_to_le_bytes(v[4])

\* implement_read: from_le_bytes of the bytes read_exact returned, or its
\* error
decoded_u16(r) == IF IsOk(r) THEN Ok(r.s, u16_from_le_bytes(r.v)) ELSE r
decoded_u32(r) == IF IsOk(r) THEN Ok(r.s, u32_from_le_bytes(r.v)) ELSE r
decoded_u64(r) == IF IsOk(r) THEN Ok(r.s, u64_from_le_bytes(r.v)) ELSE r

read_u16_le(s) == decoded_u16(read_exact(s, 2))
read_u32_le(s) == decoded_u32(read_exact(s, 4))
read_u64_le(s) == decoded_u64(read_exact(s, 8))

\* read_i32_le: the u32 read, cast (the bit pattern is kept)
read_i32_le(s) == read_u32_le(s)

write_u16_le(s, val) == write_all(s, u16_to_le_bytes(val))
write_u32_le(s, val) == write_all(s, u32_to_le_bytes(val))
write_u64_le(s, val) == write_all(s, u64_to_le_bytes(val))
write_i32_le(s, val) == write_u32_le(s, val)

\* A statement `writer.write_..(val)?` after others: w is the result of the
\* statements before it, whose error returns at once.
then_write_u16_le(w, val) == IF IsOk(w) THEN write_u16_le(w.s, val) ELSE Fail(w)
then_write_u32_le(w, val) == IF IsOk(w) THEN write_u32_le(w.s, val) ELSE Fail(w)
then_write_i32_le(w, val) == IF IsOk(w) THEN write_i32_le(w.s, val) ELSE Fail(w)
then_write_u64_le(w, val) == IF IsOk(w) THEN write_u64_le(w.s, val) ELSE Fail(w)

\* u64 + usize, where the sum stays below 2^16 (a length added to min_len())
U64Plus(n, m) == <<n + m, 0, 0, 0>>

then_write_all(w, bytes)  == IF IsOk(w) THEN write_all(w.s, bytes) ELSE Fail(w)

\* A statement `let field = reader.read_..()?` after others: r is the result
\* of the statements before it, its value the fields read so far, in the
\* order read.
field(fields, x) == IF IsOk(x) THEN Ok(x.s, Append(fields, x.v)) ELSE Fail(x)
then_read_u16_le(r) == IF IsOk(r) THEN field(r.v, read_u16_le(r.s)) ELSE Fail(r)
then_read_u32_le(r) == IF IsOk(r) THEN field(r.v, read_u32_le(r.s)) ELSE Fail(r)
then_read_u64_le(r) == IF IsOk(r) THEN field(r.v, read_u64_le(r.s)) ELSE Fail(r)
then_read_i32_le(r) == IF IsOk(r) THEN field(r.v, read_i32_le(r.s)) ELSE Fail(r)
\* vec![0u8; n] and read_exact into it
then_read_exact(r, n) == IF IsOk(r) THEN field(r.v, read_exact(r.s, n)) ELSE Fail(r)

---------------------------------------------------------------------------
(* zip_format: the records                                                 *)

\* Option<T>
Some(v) == [some |-> TRUE, v |-> v]
None    == [some |-> FALSE, v |-> <<>>]

EndOfCentralDirectory_signature == <<19280, 1541>>              \* 0x06054B50
Zip64EndOfCentralDirectoryLocator_signature == <<19280, 1798>>  \* 0x07064B50
Zip64EndOfCentralDirectory_signature == <<19280, 1542>>         \* 0x06064B50
\* A faulty variant of the central directory header's signature: the local
\* file header's, 0x04034B50.
CentralDirectoryHeader_signature_local == <<19280, 1027>>
CentralDirectoryHeader_signature == <<19280, 513>>              \* 0x02014B50

\* min_len(): min_len_bias() plus the widths of the fixed-width fields
EndOfCentralDirectory_min_len == (4 + 2) + 2 + 2 + 2 + 2 + 4 + 4
Zip64EndOfCentralDirectory_min_len_bias == 4 + 8
Zip64EndOfCentralDirectory_min_len ==
    Zip64EndOfCentralDirectory_min_len_bias + 2 + 2 + 4 + 4 + 8 + 8 + 8 + 8

\* usize-to-u16 with the cap both encoders apply to a length prefix
LengthPrefix(n) == IF n > U16_MAX THEN U16_MAX ELSE n

EndOfCentralDirectory_write(self, writer) ==
    LET w1 == write_u32_le(writer, EndOfCentralDirectory_signature)
        w2 == then_write_u16_le(w1, self.disk_no)
        w3 == then_write_u16_le(w2, self.start_central_dir_disk_no)
        w4 == then_write_u16_le(w3, self.total_central_dir_entries_this_disk)
        w5 == then_write_u16_le(w4, self.total_central_dir_entries)
        w6 == then_write_u32_le(w5, self.central_directory_size)
        w7 == then_write_u32_le(w6, self.central_dir_offset_on_disk)
        w8 == then_write_u16_le(w7, IF self.comment.some
                                    THEN LengthPrefix(Len(self.comment.v))
                                    ELSE U16_MAX)
    IN then_write_all(w8, IF self.comment.some THEN self.comment.v ELSE <<>>)

\* lines 90-98: the comment, None for a length of 0xFFFF; field 7 is
\* comment_length
EndOfCentralDirectory_read_comment(r) ==
    IF ~IsOk(r) THEN Fail(r)
    ELSE IF r.v[7] = U16_MAX THEN Ok(r.s, None)
    ELSE LET buf == read_exact(r.s, r.v[7])
         IN IF IsOk(buf) THEN Ok(buf.s, Some(buf.v)) ELSE Fail(buf)

\* lines 100-108: Ok(Self { .. })
EndOfCentralDirectory_of(r, comment) ==
    IF ~IsOk(comment) THEN Fail(comment)
    ELSE Ok(comment.s, [disk_no |-> r.v[1],
                        start_central_dir_disk_no |-> r.v[2],
                        total_central_dir_entries_this_disk |-> r.v[3],
                        total_central_dir_entries |-> r.v[4],
                        central_directory_size |-> r.v[5],
                        central_dir_offset_on_disk |-> r.v[6],
                        comment |-> comment.v])

EndOfCentralDirectory_read_fields(reader) ==
    LET r1 == then_read_u16_le(Ok(reader, <<>>))    \* disk_no
        r2 == then_read_u16_le(r1)      \* start_central_dir_disk_no
        r3 == then_read_u16_le(r2)      \* total_central_dir_entries_this_disk
        r4 == then_read_u16_le(r3)      \* total_central_dir_entries
        r5 == then_read_u32_le(r4)      \* central_directory_size
        r6 == then_read_u32_le(r5)      \* central_dir_offset_on_disk
        r7 == then_read_u16_le(r6)      \* comment_length
    IN r7

EndOfCentralDirectory_with_comment(r) ==
    EndOfCentralDirectory_of(r, EndOfCentralDirectory_read_comment(r))

EndOfCentralDirectory_read_after_signature(reader) ==
    EndOfCentralDirectory_with_comment(EndOfCentralDirectory_read_fields(reader))

\* A faulty variant of should_check_zip64: the two disk numbers are not
\* looked at.
should_check_zip64_without_disks(self) ==
    \/ self.total_central_dir_entries_this_disk = U16_MAX
    \/ self.total_central_dir_entries = U16_MAX
    \/ self.central_directory_size = U32_MAX
    \/ self.central_dir_offset_on_disk = U32_MAX

should_check_zip64(self) ==
    \/ self.disk_no = U16_MAX
    \/ self.start_central_dir_disk_no = U16_MAX
    \/ self.total_central_dir_entries_this_disk = U16_MAX
    \/ self.total_central_dir_entries = U16_MAX
    \/ self.central_directory_size = U32_MAX
    \/ self.central_dir_offset_on_disk = U32_MAX

\* lines 176-180: Ok(Self { .. })
Zip64EndOfCentralDirectoryLocator_of(r) ==
    IF ~IsOk(r) THEN Fail(r)
    ELSE Ok(r.s, [disk_no |-> r.v[1], offset_on_disk |-> r.v[2], total_disks |-> r.v[3]])

Zip64EndOfCentralDirectoryLocator_read_after_signature(reader) ==
    LET r1 == then_read_u32_le(Ok(reader, <<>>))    \* disk_no
        r2 == then_read_u64_le(r1)                  \* offset_on_disk
        r3 == then_read_u32_le(r2)                  \* total_disks
    IN Zip64EndOfCentralDirectoryLocator_of(r3)

\* Lines 259-263.  FIXED_FIELDS_LEN is min_len() - min_len_bias(); the
\* extensible length is size - min_len(), a u64 subtraction that underflows
\* for a size below min_len(): the overflow check panics, and without the
\* check the wrapped length is more than any allocation, which panics as
\* well.  Field 1 is size.
Zip64EndOfCentralDirectory_check_size(r) ==
    IF ~IsOk(r) THEN Fail(r)
    ELSE IF PosOfU64(r.v[1]) < Zip64EndOfCentralDirectory_min_len
                                   - Zip64EndOfCentralDirectory_min_len_bias
         THEN Err(r.s, "RecordTooSmall")
    ELSE IF PosOfU64(r.v[1]) - Zip64EndOfCentralDirectory_min_len < 0
         THEN Err(r.s, "Panic")
    ELSE r

\* lines 274-275: the extensible data sector.  A size of 2^16 or more names
\* more bytes than any file of the model holds: read_exact fails.  A size
\* whose highest 16 bits exceed 0x8000 asks for a vector of more than
\* isize::MAX bytes (more than a usize holds where usize is 32 bits wide):
\* vec! (the unwrap of line 263) panics.
Zip64EndOfCentralDirectory_read_extensible(r) ==
    IF ~IsOk(r) THEN Fail(r)
    ELSE IF r.v[1][4] > 32768 THEN Err(r.s, "Panic")
    ELSE then_read_exact(r, PosOfU64(r.v[1]) - Zip64EndOfCentralDirectory_min_len)

\* lines 277-287: Ok(Self { .. })
Zip64EndOfCentralDirectory_of(r) ==
    IF ~IsOk(r) THEN Fail(r)
    ELSE Ok(r.s, [creator_version |-> r.v[2],
                  required_version |-> r.v[3],
                  disk_no |-> r.v[4],
                  start_central_dir_disk_no |-> r.v[5],
                  total_central_dir_entries_this_disk |-> r.v[6],
                  total_central_dir_entries |-> r.v[7],
                  central_directory_size |-> r.v[8],
                  central_dir_offset_on_disk |-> r.v[9],
                  extensible_data_sector |-> r.v[10]])

Zip64EndOfCentralDirectory_read_after_signature(reader) ==
    LET r0 == then_read_u64_le(Ok(reader, <<>>))    \* size
        r1 == then_read_u16_le(Zip64EndOfCentralDirectory_check_size(r0))
                                        \* creator_version
        r2 == then_read_u16_le(r1)      \* required_version
        r3 == then_read_u32_le(r2)      \* disk_no
        r4 == then_read_u32_le(r3)      \* start_central_dir_disk_no
        r5 == then_read_u64_le(r4)      \* total_central_dir_entries_this_disk
        r6 == then_read_u64_le(r5)      \* total_central_dir_entries
        r7 == then_read_u64_le(r6)      \* central_directory_size
        r8 == then_read_u64_le(r7)      \* central_dir_offset_on_disk
    IN Zip64EndOfCentralDirectory_of(Zip64EndOfCentralDirectory_read_extensible(r8))

Zip64EndOfCentralDirectoryLocator_write(self, writer) ==
    LET w0 == write_u32_le(writer, Zip64EndOfCentralDirectoryLocator_signature)
        w1 == then_write_u32_le(w0, self.disk_no)
        w2 == then_write_u64_le(w1, self.offset_on_disk)
        w3 == then_write_u32_le(w2, self.total_disks)
    IN w3

\* line 234: length = min_len() + extensible_data_sector.len()
Zip64EndOfCentralDirectory_write(self, writer) ==
    LET w0  == write_u32_le(writer, Zip64EndOfCentralDirectory_signature)
        w1  == then_write_u64_le(w0, U64Plus(Zip64EndOfCentralDirectory_min_len,
                                             Len(self.extensible_data_sector)))
        w2  == then_write_u16_le(w1, self.creator_version)
        w3  == then_write_u16_le(w2, self.required_version)
        w4  == then_write_u32_le(w3, self.disk_no)
        w5  == then_write_u32_le(w4, self.start_central_dir_disk_no)
        w6  == then_write_u64_le(w5, self.total_central_dir_entries_this_disk)
        w7  == then_write_u64_le(w6, self.total_central_dir_entries)
        w8  == then_write_u64_le(w7, self.central_directory_size)
        w9  == then_write_u64_le(w8, self.central_dir_offset_on_disk)
        w10 == then_write_all(w9, self.extensible_data_sector)
    IN w10

CentralDirectoryHeader_write(self, writer) ==
    LET w0  == write_u32_le(writer, CentralDirectoryHeader_signature)
        w1  == then_write_u16_le(w0, self.creator_version)
        w2  == then_write_u16_le(w1, self.required_version)
        w3  == then_write_u16_le(w2, self.general_purpose_bit_flag)
        w4  == then_write_u16_le(w3, self.compression_method)
        w5  == then_write_u16_le(w4, self.last_mod_file_time)
        w6  == then_write_u16_le(w5, self.last_mod_file_date)
        w7  == then_write_u32_le(w6, self.crc32)
        w8  == then_write_u32_le(w7, self.compressed_size)
        w9  == then_write_u32_le(w8, self.uncompressed_size)
        w10 == then_write_u16_le(w9, LengthPrefix(Len(self.file_name)))
        w11 == then_write_u16_le(w10, LengthPrefix(Len(self.extra_fields)))
        w12 == then_write_u16_le(w11, LengthPrefix(Len(self.file_comment)))
        w13 == then_write_u16_le(w12, self.disk_number_start)
        w14 == then_write_u16_le(w13, self.internal_attributes)
        w15 == then_write_u32_le(w14, self.external_attributes)
        w16 == then_write_i32_le(w15, self.local_header_relative_offset)
        w17 == then_write_all(w16, self.file_name)
        w18 == then_write_all(w17, self.extra_fields)
        w19 == then_write_all(w18, self.file_comment)
    IN w19

\* lines 423-430: the three vectors; fields 10, 11 and 12 are their lengths
CentralDirectoryHeader_read_file_name(r) ==
    IF ~IsOk(r) THEN Fail(r) ELSE then_read_exact(r, r.v[10])

CentralDirectoryHeader_read_extra_fields(r) ==
    IF ~IsOk(r) THEN Fail(r) ELSE then_read_exact(r, r.v[11])

CentralDirectoryHeader_read_file_comment(r) ==
    IF ~IsOk(r) THEN Fail(r) ELSE then_read_exact(r, r.v[12])

\* lines 432-449: Ok(Self { .. })
CentralDirectoryHeader_of(r) ==
    IF ~IsOk(r) THEN Fail(r)
    ELSE Ok(r.s, [creator_version |-> r.v[1],
                  required_version |-> r.v[2],
                  general_purpose_bit_flag |-> r.v[3],
                  compression_method |-> r.v[4],
                  last_mod_file_time |-> r.v[5],
                  last_mod_file_date |-> r.v[6],
                  crc32 |-> r.v[7],
                  compressed_size |-> r.v[8],
                  uncompressed_size |-> r.v[9],
                  file_name |-> r.v[17],
                  extra_fields |-> r.v[18],
                  file_comment |-> r.v[19],
                  disk_number_start |-> r.v[13],
                  internal_attributes |-> r.v[14],
                  external_attributes |-> r.v[15],
                  local_header_relative_offset |-> r.v[16]])

CentralDirectoryHeader_read_after_signature(reader) ==
    LET r1  == then_read_u16_le(Ok(reader, <<>>))   \* creator_version
        r2  == then_read_u16_le(r1)     \* required_version
        r3  == then_read_u16_le(r2)     \* general_purpose_bit_flag
        r4  == then_read_u16_le(r3)     \* compression_method
        r5  == then_read_u16_le(r4)     \* last_mod_file_time
        r6  == then_read_u16_le(r5)     \* last_mod_file_date
        r7  == then_read_u32_le(r6)     \* crc32
        r8  == then_read_u32_le(r7)     \* compressed_size
        r9  == then_read_u32_le(r8)     \* uncompressed_size
        r10 == then_read_u16_le(r9)     \* file_name_length
        r11 == then_read_u16_le(r10)    \* extra_field_length
        r12 == then_read_u16_le(r11)    \* file_comment_length
        r13 == then_read_u16_le(r12)    \* disk_number_start
        r14 == then_read_u16_le(r13)    \* internal_attributes
        r15 == then_read_u32_le(r14)    \* external_attributes
        r16 == then_read_i32_le(r15)    \* local_header_relative_offset
        r17 == CentralDirectoryHeader_read_file_name(r16)
        r18 == CentralDirectoryHeader_read_extra_fields(r17)
        r19 == CentralDirectoryHeader_read_file_comment(r18)
    IN CentralDirectoryHeader_of(r19)

\* read_i64_le, write_i64_le: the u64 operation, cast (the bit pattern is
\* kept)
read_i64_le(s) == read_u64_le(s)
write_i64_le(s, val) == write_u64_le(s, val)

Zip64ExtraField_tag == 1

\* an optional field written if it is there
then_write_some_u64_le(w, opt) ==
    IF ~IsOk(w) THEN Fail(w)
    ELSE IF opt.some THEN write_u64_le(w.s, opt.v) ELSE w

then_write_some_i64_le(w, opt) ==
    IF ~IsOk(w) THEN Fail(w)
    ELSE IF opt.some THEN write_i64_le(w.s, opt.v) ELSE w

then_write_some_u32_le(w, opt) ==
    IF ~IsOk(w) THEN Fail(w)
    ELSE IF opt.some THEN write_u32_le(w.s, opt.v) ELSE w

\* lines 479-484: the size of the fields that are there
Zip64ExtraField_size(self) ==
    (IF self.uncompressed_size.some THEN 8 ELSE 0)
    + (IF self.compressed_size.some THEN 8 ELSE 0)
    + (IF self.local_header_relative_offset.some THEN 8 ELSE 0)
    + (IF self.disk_number_start.some THEN 4 ELSE 0)

Zip64ExtraField_write(self, writer) ==
    LET w0 == write_u16_le(writer, Zip64ExtraField_tag)
        w1 == then_write_u16_le(w0, Zip64ExtraField_size(self))
        w2 == then_write_some_u64_le(w1, self.uncompressed_size)
        w3 == then_write_some_u64_le(w2, self.compressed_size)
        w4 == then_write_some_i64_le(w3, self.local_header_relative_offset)
        w5 == then_write_some_u32_le(w4, self.disk_number_start)
    IN w5

\* an optional field read if the central directory's field is the sentinel
some_field(fields, x) ==
    IF IsOk(x) THEN Ok(x.s, Append(fields, Some(x.v))) ELSE Fail(x)

then_read_some_u64_le(r, expected) ==
    IF ~IsOk(r) THEN Fail(r)
    ELSE IF expected THEN some_field(r.v, read_u64_le(r.s))
    ELSE Ok(r.s, Append(r.v, None))

then_read_some_i64_le(r, expected) ==
    IF ~IsOk(r) THEN Fail(r)
    ELSE IF expected THEN some_field(r.v, read_i64_le(r.s))
    ELSE Ok(r.s, Append(r.v, None))

then_read_some_u32_le(r, expected) ==
    IF ~IsOk(r) THEN Fail(r)
    ELSE IF expected THEN some_field(r.v, read_u32_le(r.s))
    ELSE Ok(r.s, Append(r.v, None))

\* A faulty variant of lines 522-536: the disk number is taken for 8 bytes
\* wide, as the three other fields are.
Zip64ExtraField_expected_length_disk_8(cdir_uncompressed_size, cdir_compressed_size, cdir_local_header_relative_offset, cdir_disk_number_start) ==
    (IF cdir_uncompressed_size = U32_MAX THEN 8 ELSE 0)
    + (IF cdir_compressed_size = U32_MAX THEN 8 ELSE 0)
    + (IF cdir_local_header_relative_offset = U32_MAX THEN 8 ELSE 0)
    + (IF cdir_disk_number_start = U16_MAX THEN 8 ELSE 0)

\* lines 514-528: the length the sentinels call for.  -1 as i32 is the bit
\* pattern 0xFFFFFFFF.
Zip64ExtraField_expected_length(cdir_uncompressed_size, cdir_compressed_size, cdir_local_header_relative_offset, cdir_disk_number_start) ==
    (IF cdir_uncompressed_size = U32_MAX THEN 8 ELSE 0)
    + (IF cdir_compressed_size = U32_MAX THEN 8 ELSE 0)
    + (IF cdir_local_header_relative_offset = U32_MAX THEN 8 ELSE 0)
    + (IF cdir_disk_number_start = U16_MAX THEN 4 ELSE 0)

\* lines 538-541: the length, compared; field 1 is length.  The error
\* carries the length read.
Zip64ExtraField_check_length(r, expected_length) ==
    IF ~IsOk(r) THEN Fail(r)
    ELSE IF r.v[1] # expected_length
         THEN [Err(r.s, "UnexpectedExtraDataLength") EXCEPT !.v = r.v[1]]
    ELSE r

\* lines 556-561: Ok(Self { .. })
Zip64ExtraField_of(r) ==
    IF ~IsOk(r) THEN Fail(r)
    ELSE Ok(r.s, [uncompressed_size |-> r.v[2],
                  compressed_size |-> r.v[3],
                  local_header_relative_offset |-> r.v[4],
                  disk_number_start |-> r.v[5]])

Zip64ExtraField_read_after_tag(reader, cdir_uncompressed_size, cdir_compressed_size, cdir_local_header_relative_offset, cdir_disk_number_start) ==
    LET r1 == Zip64ExtraField_check_length(
                  then_read_u16_le(Ok(reader, <<>>)),
                  Zip64ExtraField_expected_length(
                      cdir_uncompressed_size, cdir_compressed_size,
                      cdir_local_header_relative_offset, cdir_disk_number_start))
        r2 == then_read_some_u64_le(r1, cdir_uncompressed_size = U32_MAX)
        r3 == then_read_some_u64_le(r2, cdir_compressed_size = U32_MAX)
        r4 == then_read_some_i64_le(r3, cdir_local_header_relative_offset = U32_MAX)
        r5 == then_read_some_u32_le(r4, cdir_disk_number_start = U16_MAX)
    IN Zip64ExtraField_of(r5)

---------------------------------------------------------------------------
(* lib.rs: the executable-state predicate, the locator, the patcher        *)

\* A faulty variant of is_executable: the Unix file type is not looked at.
is_executable_any_type(self) ==
    LET dos_attribs  == U32And(self.entry.external_attributes, <<65535, 0>>)
        unix_attribs == U32And(U32Shr16(self.entry.external_attributes), <<65535, 0>>)
    IN IF U32And(dos_attribs, U32(16)) # U32(0) THEN FALSE
       ELSE IF BitAnd(self.entry.creator_version \div 256, 255) # 3 THEN FALSE
       ELSE U32And(unix_attribs, U32(73)) # U32(0)

\* ZipCentralDirectoryEntry::is_executable.
\* 0o170000 = 61440, 0o100000 = 32768, 0o000111 = 73
is_executable(self) ==
    LET dos_attribs  == U32And(self.entry.external_attributes, <<65535, 0>>)
        unix_attribs == U32And(U32Shr16(self.entry.external_attributes), <<65535, 0>>)
    IN IF U32And(dos_attribs, U32(16)) # U32(0) THEN FALSE
       ELSE IF BitAnd(self.entry.creator_version \div 256, 255) # 3 THEN FALSE
       ELSE IF U32And(unix_attribs, U32(61440)) # U32(32768) THEN FALSE
       ELSE U32And(unix_attribs, U32(73)) # U32(0)

\* lookback_for_signature, lines 133-136: the step back by 5 bytes (the 4
\* just read and 1 more).  The loop state is [done, r]: r is the function's
\* result once it has returned (done), and holds the stream until then.
lookback_seek(new_loc) ==
    IF ~IsOk(new_loc) THEN [done |-> TRUE, r |-> Fail(new_loc)]
    ELSE IF new_loc.v = 0 THEN [done |-> TRUE, r |-> Ok(new_loc.s, FALSE)]
    ELSE [done |-> FALSE, r |-> Ok(new_loc.s, FALSE)]

\* lines 129-132: the 4 bytes at the cursor, compared
lookback_compare(possible_signature, signature) ==
    IF ~IsOk(possible_signature) THEN [done |-> TRUE, r |-> Fail(possible_signature)]
    ELSE IF possible_signature.v = signature
         THEN [done |-> TRUE, r |-> Ok(possible_signature.s, TRUE)]
    ELSE lookback_seek(seek_current(possible_signature.s, -5))

\* one pass through the body of the `loop`
lookback_pass(st, signature) ==
    IF st.done THEN st ELSE lookback_compare(read_u32_le(st.r.s), signature)

\* k passes, split in halves (the evaluation stays shallow)
RECURSIVE lookback_passes(_, _, _)
lookback_passes(st, signature, k) ==
    IF k <= 0 \/ st.done THEN st
    ELSE IF k = 1 THEN lookback_pass(st, signature)
    ELSE lookback_passes(lookback_passes(st, signature, k \div 2),
                         signature, k - (k \div 2))

\* The loop returns within Len(file.data) + 1 passes: a pass that does not
\* return leaves the cursor one byte before where it started, and the
\* first read fails when the cursor is within 3 bytes of the end.
lookback_for_signature(file, signature) ==
    lookback_passes([done |-> FALSE, r |-> Ok(file, FALSE)], signature,
                    Len(file.data) + 1).r

\* zip_get_files, lines 171-197: the Zip64 probe, step by step from its
\* end.  Its value is zip64_central_directory_loc, an Option<u64>.
\* lines 190-195: the Zip64 record
zip64_probe_record(zip64_eocd) ==
    IF ~IsOk(zip64_eocd) THEN Fail(zip64_eocd)
    ELSE IF zip64_eocd.v.total_central_dir_entries
                # zip64_eocd.v.total_central_dir_entries_this_disk
         THEN Err(zip64_eocd.s, "SpannedArchive")
    ELSE Ok(zip64_eocd.s, Some(zip64_eocd.v.central_dir_offset_on_disk))

\* lines 188-197: the signature at the offset the locator names
zip64_probe_signature(zip64_eocd_sig) ==
    IF ~IsOk(zip64_eocd_sig) THEN Fail(zip64_eocd_sig)
    ELSE IF zip64_eocd_sig.v # Zip64EndOfCentralDirectory_signature
         THEN Ok(zip64_eocd_sig.s, None)
    ELSE zip64_probe_record(
             Zip64EndOfCentralDirectory_read_after_signature(zip64_eocd_sig.s))

\* A faulty variant of lines 178-185: the locator's disk_no and total_disks
\* are not looked at.
zip64_probe_locator_any_disk(zip64_eocd_loc) ==
    IF ~IsOk(zip64_eocd_loc) THEN Fail(zip64_eocd_loc)
    ELSE zip64_probe_signature(
             read_u32_le(seek_start(zip64_eocd_loc.s,
                                    PosOfU64(zip64_eocd_loc.v.offset_on_disk)).s))

\* lines 178-185: the locator
zip64_probe_locator(zip64_eocd_loc) ==
    IF ~IsOk(zip64_eocd_loc) THEN Fail(zip64_eocd_loc)
    ELSE IF zip64_eocd_loc.v.disk_no # U32(0) \/ zip64_eocd_loc.v.total_disks # U32(1)
         THEN Err(zip64_eocd_loc.s, "SpannedArchive")
    ELSE zip64_probe_signature(
             read_u32_le(seek_start(zip64_eocd_loc.s,
                                    PosOfU64(zip64_eocd_loc.v.offset_on_disk)).s))

\* line 177: the search for the locator's signature
zip64_probe_found(zip64_eocd_loc_found) ==
    IF ~IsOk(zip64_eocd_loc_found) THEN Fail(zip64_eocd_loc_found)
    ELSE IF ~zip64_eocd_loc_found.v THEN Ok(zip64_eocd_loc_found.s, None)
    ELSE zip64_probe_locator(
             Zip64EndOfCentralDirectoryLocator_read_after_signature(
                 zip64_eocd_loc_found.s))

\* line 174: the second search for the end-of-central-directory signature,
\* its boolean dropped
zip64_probe_back(back) ==
    IF ~IsOk(back) THEN Fail(back)
    ELSE zip64_probe_found(
             lookback_for_signature(back.s, Zip64EndOfCentralDirectoryLocator_signature))

zip64_probe(zip_file, eocd) ==
    IF ~should_check_zip64(eocd) THEN Ok(zip_file, None)
    ELSE zip64_probe_back(
             lookback_for_signature(zip_file, EndOfCentralDirectory_signature))

\* zip_get_files, lines 208-224: the enumeration loop
RECURSIVE read_file_names(_, _)

\* A faulty variant of lines 216-221: the position recorded is the one
\* after the signature.
read_file_names_push_after_signature(file_header_loc, cdh, file_names) ==
    IF ~IsOk(cdh) THEN Fail(cdh)
    ELSE read_file_names(cdh.s,
             Append(file_names, [entry  |-> cdh.v,
                                 disk   |-> 0,
                                 offset |-> file_header_loc + 4]))

\* lines 216-221: the header, pushed
read_file_names_push(file_header_loc, cdh, file_names) ==
    IF ~IsOk(cdh) THEN Fail(cdh)
    ELSE read_file_names(cdh.s,
             Append(file_names, [entry  |-> cdh.v,
                                 disk   |-> 0,
                                 offset |-> file_header_loc]))

\* lines 212-216: the signature, and the break
read_file_names_signature(file_header_loc, signature, file_names) ==
    IF ~IsOk(signature) THEN Fail(signature)
    ELSE IF signature.v # CentralDirectoryHeader_signature
         THEN Ok(signature.s, file_names)
    ELSE read_file_names_push(file_header_loc,
             CentralDirectoryHeader_read_after_signature(signature.s), file_names)

\* line 211: file_header_loc = seek(SeekFrom::Current(0)), the cursor
read_file_names(zip_file, file_names) ==
    read_file_names_signature(zip_file.pos, read_u32_le(zip_file), file_names)

\* zip_get_files, step by step from its end
\* A faulty variant of lines 198-206: the two counts are not compared.
zip_get_files_located_unchecked(eocd, zip64_central_directory_loc) ==
    IF ~IsOk(zip64_central_directory_loc) THEN Fail(zip64_central_directory_loc)
    ELSE read_file_names(
             seek_start(zip64_central_directory_loc.s,
                        PosOfU64(IF zip64_central_directory_loc.v.some
                                 THEN zip64_central_directory_loc.v.v
                                 ELSE U64FromU32(eocd.central_dir_offset_on_disk))).s,
             <<>>)

\* lines 198-206: the fallback check, the seek to the central directory
zip_get_files_located(eocd, zip64_central_directory_loc) ==
    IF ~IsOk(zip64_central_directory_loc) THEN Fail(zip64_central_directory_loc)
    ELSE IF ~zip64_central_directory_loc.v.some
            /\ eocd.total_central_dir_entries # eocd.total_central_dir_entries_this_disk
         THEN Err(zip64_central_directory_loc.s, "SpannedArchive")
    ELSE read_file_names(
             seek_start(zip64_central_directory_loc.s,
                        PosOfU64(IF zip64_central_directory_loc.v.some
                                 THEN zip64_central_directory_loc.v.v
                                 ELSE U64FromU32(eocd.central_dir_offset_on_disk))).s,
             <<>>)

\* lines 166-171: the record, the spanned-archive check
zip_get_files_eocd(eocd) ==
    IF ~IsOk(eocd) THEN Fail(eocd)
    ELSE IF eocd.v.disk_no # 0 THEN Err(eocd.s, "SpannedArchive")
    ELSE zip_get_files_located(eocd.v, zip64_probe(eocd.s, eocd.v))

\* lines 161-165: the search for the end-of-central-directory signature
zip_get_files_found(eocd_found) ==
    IF ~IsOk(eocd_found) THEN Fail(eocd_found)
    ELSE IF ~eocd_found.v THEN Err(eocd_found.s, "MissingEndOfCentralDirectory")
    ELSE zip_get_files_eocd(EndOfCentralDirectory_read_after_signature(eocd_found.s))

\* line 158: the seek to where the shortest record would start
zip_get_files_sought(sk) ==
    IF ~IsOk(sk) THEN Fail(sk)
    ELSE zip_get_files_found(
             lookback_for_signature(sk.s, EndOfCentralDirectory_signature))

zip_get_files(zip_file) ==
    zip_get_files_sought(seek_end(zip_file, 0 - EndOfCentralDirectory_min_len))

\* A faulty variant of the skip: the signature and creator_version, already
\* read, are counted again.
SkipInterveningFields_from_header_start ==
    4 + 2 + 2 + 2 + 2 + 2 + 2 + 4 + 4 + 4 + 2 + 2 + 2 + 2 + 2

\* A faulty variant of the skip: internal_attributes is left out.
SkipInterveningFields_without_internal_attributes ==
    2 + 2 + 2 + 2 + 2 + 4 + 4 + 4 + 2 + 2 + 2 + 2

\* lines 246-260 and 298-312: the fields between creator_version and
\* external_attributes, itemized
SkipInterveningFields ==
    2 + 2 + 2 + 2 + 2 + 4 + 4 + 4 + 2 + 2 + 2 + 2 + 2

\* A faulty variant of line 241: the low byte is dropped.
make_executable_creator_version_unix_only(creator_version) ==
    BitOr(BitAnd(creator_version, 0), 768)

\* line 241: (creator_version & 0x00FF) | 0x0300
make_executable_creator_version(creator_version) ==
    BitOr(BitAnd(creator_version, 255), 768)

\* Faulty variants of lines 266-270: full permissions (0o000777 = 511) are
\* OR-ed in; the execute bits are toggled, not set.
make_executable_attributes_rwx(external_attributes) ==
    U32Or(U32Or(U32And(external_attributes, U32Xor(U32Shl16(U32(61440)), U32_MAX)),
                U32Shl16(U32(32768))),
          U32Shl16(U32(511)))

make_executable_attributes_toggle(external_attributes) ==
    U32Xor(U32Or(U32And(external_attributes, U32Xor(U32Shl16(U32(61440)), U32_MAX)),
                 U32Shl16(U32(32768))),
           U32Shl16(U32(73)))

\* lines 266-270.  0o170000 = 61440, 0o100000 = 32768, 0o000111 = 73
make_executable_attributes(external_attributes) ==
    U32Or(U32Or(U32And(external_attributes, U32Xor(U32Shl16(U32(61440)), U32_MAX)),
                U32Shl16(U32(32768))),
          U32Shl16(U32(73)))

\* A faulty variant of line 317: every permission bit (0o000777) is cleared.
make_not_executable_attributes_all(external_attributes) ==
    U32And(external_attributes, U32Not(U32Shl16(U32(511))))

\* line 317: external_attributes &= !(0o000111 << 16)
make_not_executable_attributes(external_attributes) ==
    U32And(external_attributes, U32Not(U32Shl16(U32(73))))


\* zip_make_executable, step by step from its end
\* lines 271-275: the seek back, the write, done
zip_make_executable_write_attributes(sk, external_attributes) ==
    IF ~IsOk(sk) THEN Fail(sk) ELSE write_u32_le(sk.s, external_attributes)

\* lines 265-270: external_attributes, read and changed
zip_make_executable_attributes(external_attributes) ==
    IF ~IsOk(external_attributes) THEN Fail(external_attributes)
    ELSE zip_make_executable_write_attributes(
             seek_current(external_attributes.s, -4),
             make_executable_attributes(external_attributes.v))

\* lines 246-260: the skip
zip_make_executable_skip(sk) ==
    IF ~IsOk(sk) THEN Fail(sk)
    ELSE zip_make_executable_attributes(read_u32_le(sk.s))

\* line 243: the write of creator_version
zip_make_executable_written_version(wr) ==
    IF ~IsOk(wr) THEN Fail(wr)
    ELSE zip_make_executable_skip(seek_current(wr.s, SkipInterveningFields))

\* line 242: the seek back
zip_make_executable_write_version(sk, creator_version) ==
    IF ~IsOk(sk) THEN Fail(sk)
    ELSE zip_make_executable_written_version(write_u16_le(sk.s, creator_version))

\* lines 240-241: creator_version, read and changed
zip_make_executable_version(creator_version) ==
    IF ~IsOk(creator_version) THEN Fail(creator_version)
    ELSE zip_make_executable_write_version(
             seek_current(creator_version.s, -2),
             make_executable_creator_version(creator_version.v))

\* lines 234-237: the signature
zip_make_executable_signature(signature) ==
    IF ~IsOk(signature) THEN Fail(signature)
    ELSE IF signature.v # CentralDirectoryHeader_signature
         THEN Err(signature.s, "IncorrectSignature")
    ELSE zip_make_executable_version(read_u16_le(signature.s))

zip_make_executable(zip_file, entry_header_offset) ==
    zip_make_executable_signature(
        read_u32_le(seek_start(zip_file, entry_header_offset).s))

\* zip_make_not_executable, step by step from its end
\* lines 318-323: the seek back, the write, done
zip_make_not_executable_write_attributes(sk, external_attributes) ==
    IF ~IsOk(sk) THEN Fail(sk) ELSE write_u32_le(sk.s, external_attributes)

\* A faulty variant of lines 315-320: the field is written back whether an
\* execute bit was set or not.
zip_make_not_executable_attributes_always(external_attributes) ==
    IF ~IsOk(external_attributes) THEN Fail(external_attributes)
    ELSE zip_make_not_executable_write_attributes(
             seek_current(external_attributes.s, -4),
             make_not_executable_attributes(external_attributes.v))

\* lines 315-317: external_attributes, read; changed if an execute bit is set
zip_make_not_executable_attributes(external_attributes) ==
    IF ~IsOk(external_attributes) THEN Fail(external_attributes)
    ELSE IF U32And(external_attributes.v, U32Shl16(U32(73))) = U32(0)
         THEN Ok(external_attributes.s, <<>>)
    ELSE zip_make_not_executable_write_attributes(
             seek_current(external_attributes.s, -4),
             make_not_executable_attributes(external_attributes.v))

\* lines 298-312: the skip
zip_make_not_executable_skip(sk) ==
    IF ~IsOk(sk) THEN Fail(sk)
    ELSE zip_make_not_executable_attributes(read_u32_le(sk.s))

\* A faulty variant of lines 291-295: the origin of the entry is not looked
\* at.
zip_make_not_executable_version_any(creator_version) ==
    IF ~IsOk(creator_version) THEN Fail(creator_version)
    ELSE zip_make_not_executable_skip(
             seek_current(creator_version.s, SkipInterveningFields))

\* lines 291-295: creator_version; 0xFF00 = 65280, 0x0300 = 768
zip_make_not_executable_version(creator_version) ==
    IF ~IsOk(creator_version) THEN Fail(creator_version)
    ELSE IF BitAnd(creator_version.v, 65280) # 768 THEN Ok(creator_version.s, <<>>)
    ELSE zip_make_not_executable_skip(
             seek_current(creator_version.s, SkipInterveningFields))

\* lines 285-288: the signature
zip_make_not_executable_signature(signature) ==
    IF ~IsOk(signature) THEN Fail(signature)
    ELSE IF signature.v # CentralDirectoryHeader_signature
         THEN Err(signature.s, "IncorrectSignature")
    ELSE zip_make_not_executable_version(read_u16_le(signature.s))

zip_make_not_executable(zip_file, entry_header_offset) ==
    zip_make_not_executable_signature(
        read_u32_le(seek_start(zip_file, entry_header_offset).s))

---------------------------------------------------------------------------
(* The archives the model opens                                            *)

\* the most central-directory entries an archive of the model holds
MaxEntries == 2

\* What varies between the entries of the model: who made the entry, its
\* attributes, its name.
\*   1: made on DOS (0x0014); the high word looks like 0o100744
\*   2: Unix (0x031E), 0o104644: regular, setuid, not executable
\*   3: Unix, 0o100755: regular, executable
\*   4: Unix, 0o040755 with the DOS directory bit: the directory "d/"
\*   5: Unix (0x0314), attributes 0x07074B50
EntryKinds ==
    << [creator_version |-> 20,  external_attributes |-> <<32, 33252>>,
        file_name |-> <<97>>],
       [creator_version |-> 798, external_attributes |-> <<0, 35236>>,
        file_name |-> <<98>>],
       [creator_version |-> 798, external_attributes |-> <<0, 33261>>,
        file_name |-> <<99>>],
       [creator_version |-> 798, external_attributes |-> <<16, 16877>>,
        file_name |-> <<100, 47>>],
       [creator_version |-> 788, external_attributes |-> <<19280, 1799>>,
        file_name |-> <<101>>] >>

HeaderOf(kind) ==
    [creator_version |-> kind.creator_version,
     required_version |-> 20,
     general_purpose_bit_flag |-> 0,
     compression_method |-> 8,
     last_mod_file_time |-> 0,
     last_mod_file_date |-> 33,
     crc32 |-> U32(0),
     compressed_size |-> U32(2),
     uncompressed_size |-> U32(0),
     file_name |-> kind.file_name,
     extra_fields |-> <<>>,
     file_comment |-> <<>>,
     disk_number_start |-> 0,
     internal_attributes |-> 0,
     external_attributes |-> kind.external_attributes,
     local_header_relative_offset |-> U32(0)]

\* the bytes before the central directory: the local file data, opaque to
\* libzmx ("PK\x03\x04")
LocalData == <<80, 75, 3, 4>>

\* the first bytes of a central-directory header, cut off after its
\* creator_version ("PK\x01\x02", 0x0014)
CutHeader == <<80, 75, 1, 2, 20, 0>>

\* How an archive ends: the sentinel (or not) in the end-of-central-directory
\* record's start_central_dir_disk_no, the archive comment, and bytes that
\* follow the record.
\*   a plain end; an end with a sentinel field, no Zip64 records and bytes
\*   appended to the archive; an end whose comment is CutHeader
Tails ==
    { [start_central_dir_disk_no |-> 0, comment |-> <<>>, trailing |-> <<>>],
      [start_central_dir_disk_no |-> U16_MAX, comment |-> <<>>,
       trailing |-> <<0, 0, 0, 0>>],
      [start_central_dir_disk_no |-> 0, comment |-> CutHeader, trailing |-> <<>>] }

\* the central directory: each header written in turn
RECURSIVE WriteHeaders(_, _)
WriteHeaders_rest(w, kinds) ==
    IF ~IsOk(w) THEN Fail(w) ELSE WriteHeaders(w.s, kinds)

WriteHeaders(writer, kinds) ==
    IF kinds = <<>> THEN Ok(writer, <<>>)
    ELSE WriteHeaders_rest(CentralDirectoryHeader_write(HeaderOf(Head(kinds)), writer),
                           Tail(kinds))

\* the archive with these entries and this end, as the encoders write it
ArchiveBytes_trailing(eocd, tail) ==
    IF IsOk(eocd) THEN write_all(eocd.s, tail.trailing).s.data ELSE <<>>

ArchiveBytes_end(central_dir_offset_on_disk, cd, kinds, tail) ==
    IF ~IsOk(cd) THEN <<>>
    ELSE ArchiveBytes_trailing(
             EndOfCentralDirectory_write(
                 [disk_no |-> 0,
                  start_central_dir_disk_no |-> tail.start_central_dir_disk_no,
                  total_central_dir_entries_this_disk |-> Len(kinds),
                  total_central_dir_entries |-> Len(kinds),
                  central_directory_size |-> U32(cd.s.pos - central_dir_offset_on_disk),
                  central_dir_offset_on_disk |-> U32(central_dir_offset_on_disk),
                  comment |-> Some(tail.comment)],
                 cd.s),
             tail)

ArchiveBytes_directory(local, kinds, tail) ==
    IF ~IsOk(local) THEN <<>>
    ELSE ArchiveBytes_end(local.s.pos, WriteHeaders(local.s, kinds), kinds, tail)

ArchiveBytes(kinds, tail) ==
    ArchiveBytes_directory(write_all(Stream(<<>>, 0), LocalData), kinds, tail)

\* Further ends of an archive: with or without the two Zip64 records before
\* the end-of-central-directory record, and with what these records say.
\*   zip64         : the Zip64 record and its locator are written
\*   this_disk_more: how many more entries the Zip64 record counts on this
\*                   disk than in total
\*   locator       : the locator's disk_no and total_disks, and how far
\*                   beyond the start of the Zip64 record its offset points
\*   eocd          : the end-of-central-directory record's disk_no, its two
\*                   entry counts ("equal": the number of entries twice;
\*                   "sentinels": 0xFFFF twice; "this_disk_sentinel": 0xFFFF
\*                   and the number of entries; "unequal": the number of
\*                   entries and one more) and whether its offset field is
\*                   the real offset or the sentinel 0xFFFFFFFF
\*   trailing      : the bytes after the record
GoodLocator == [disk_no |-> U32(0), total_disks |-> U32(1), shift |-> 0]

Zip64End ==
    [zip64 |-> TRUE, this_disk_more |-> 0, locator |-> GoodLocator,
     eocd |-> [disk_no |-> 0, entries |-> "sentinels", real_offset |-> FALSE],
     trailing |-> <<>>]

Zip64EndFollowed == [Zip64End EXCEPT !.trailing = <<0, 0, 0, 0>>]

ClassicEnd ==
    [zip64 |-> FALSE, this_disk_more |-> 0, locator |-> GoodLocator,
     eocd |-> [disk_no |-> 0, entries |-> "equal", real_offset |-> TRUE],
     trailing |-> <<>>]

Ends ==
    { Zip64End,
      Zip64EndFollowed,
      [Zip64EndFollowed EXCEPT !.locator.disk_no = U32(1)],
      [Zip64EndFollowed EXCEPT !.locator.total_disks = U32(2)],
      [Zip64EndFollowed EXCEPT !.this_disk_more = 1],
      [Zip64EndFollowed EXCEPT !.locator.shift = 4, !.eocd.real_offset = TRUE],
      [Zip64EndFollowed EXCEPT !.locator.shift = 4, !.eocd.real_offset = TRUE,
                               !.eocd.entries = "this_disk_sentinel"],
      [ClassicEnd EXCEPT !.eocd.entries = "sentinels"],
      [ClassicEnd EXCEPT !.eocd.entries = "sentinels", !.trailing = <<0, 0, 0, 0>>],
      [ClassicEnd EXCEPT !.eocd.entries = "this_disk_sentinel",
                         !.trailing = <<0, 0, 0, 0>>],
      [ClassicEnd EXCEPT !.eocd.disk_no = 1],
      [ClassicEnd EXCEPT !.eocd.entries = "unequal"] }

\* the end-of-central-directory record's two counts:
\* <<total_central_dir_entries_this_disk, total_central_dir_entries>>
EocdEntries(entries, n) ==
    IF entries = "sentinels" THEN <<U16_MAX, U16_MAX>>
    ELSE IF entries = "this_disk_sentinel" THEN <<U16_MAX, n>>
    ELSE IF entries = "unequal" THEN <<n, n + 1>>
    ELSE <<n, n>>

\* the archive with these entries and this end, as the encoders write it,
\* record by record from its last
ArchiveWithEnd_eocd(w, central_dir_offset, central_directory_size, kinds, end) ==
    IF ~IsOk(w) THEN <<>>
    ELSE ArchiveBytes_trailing(
             EndOfCentralDirectory_write(
                 [disk_no |-> end.eocd.disk_no,
                  start_central_dir_disk_no |-> 0,
                  total_central_dir_entries_this_disk |->
                      EocdEntries(end.eocd.entries, Len(kinds))[1],
                  total_central_dir_entries |->
                      EocdEntries(end.eocd.entries, Len(kinds))[2],
                  central_directory_size |-> U32(central_directory_size),
                  central_dir_offset_on_disk |->
                      IF end.eocd.real_offset THEN U32(central_dir_offset)
                      ELSE U32_MAX,
                  comment |-> Some(<<>>)],
                 w.s),
             end)

ArchiveWithEnd_locator(w, zip64_offset, central_dir_offset, central_directory_size, kinds, end) ==
    IF ~IsOk(w) THEN <<>>
    ELSE ArchiveWithEnd_eocd(
             Zip64EndOfCentralDirectoryLocator_write(
                 [disk_no |-> end.locator.disk_no,
                  offset_on_disk |-> U64(zip64_offset + end.locator.shift),
                  total_disks |-> end.locator.total_disks],
                 w.s),
             central_dir_offset, central_directory_size, kinds, end)

ArchiveWithEnd_zip64(cd, central_dir_offset, kinds, end) ==
    IF ~IsOk(cd) THEN <<>>
    ELSE IF ~end.zip64
         THEN ArchiveWithEnd_eocd(cd, central_dir_offset,
                                  cd.s.pos - central_dir_offset, kinds, end)
    ELSE ArchiveWithEnd_locator(
             Zip64EndOfCentralDirectory_write(
                 [creator_version |-> 798,
                  required_version |-> 45,
                  disk_no |-> U32(0),
                  start_central_dir_disk_no |-> U32(0),
                  total_central_dir_entries_this_disk |->
                      U64(Len(kinds) + end.this_disk_more),
                  total_central_dir_entries |-> U64(Len(kinds)),
                  central_directory_size |-> U64(cd.s.pos - central_dir_offset),
                  central_dir_offset_on_disk |-> U64(central_dir_offset),
                  extensible_data_sector |-> <<>>],
                 cd.s),
             cd.s.pos, central_dir_offset, cd.s.pos - central_dir_offset, kinds, end)

ArchiveWithEnd(kinds, end) ==
    ArchiveWithEnd_zip64(WriteHeaders(write_all(Stream(<<>>, 0), LocalData).s, kinds),
                         Len(LocalData), kinds, end)

\* the central directories these archives hold: one entry, or none
EndEntryLists == { <<>>, <<EntryKinds[2]>> }

\* files that are no archives: 22 and 23 zero bytes
NotArchives == { Zeros(EndOfCentralDirectory_min_len),
                 Zeros(EndOfCentralDirectory_min_len + 1) }

\* The central directories of the model: up to MaxEntries entries, of any
\* kinds, the kinds in the order above (which entry comes first is not
\* varied).
EntryLists ==
    UNION { { [i \in 1..n |-> EntryKinds[c[i]]] :
                c \in { d \in [1..n -> 1..Len(EntryKinds)] :
                           \A i \in 1..n, j \in 1..n : i < j => d[i] <= d[j] } } :
            n \in 0..MaxEntries }

---------------------------------------------------------------------------
(* The state machine: a caller that holds the archive open and calls the   *)
(* library                                                                 *)

\* what the caller keeps of a call: what it called, what came back (res, v),
\* the archive as it was before the call, and the writes the call issued
Call(op, offset, r, before) ==
    [op |-> op, offset |-> offset, res |-> r.res, v |-> r.v, before |-> before,
     writes |-> r.s.writes]

\* The bytes a header at `offset` keeps its creator_version in, and those
\* of its external_attributes (<<>> where the archive ends before them):
\* the positions CentralDirectoryHeader::read_after_signature decodes the
\* two fields from, counted from the start of the signature.
FieldBytes(data, offset, at, n) ==
    IF offset + at + n <= Len(data)
    THEN SubSeq(data, offset + at + 1, offset + at + n)
    ELSE <<>>

\* after the signature
creator_version_bytes(data, offset) == FieldBytes(data, offset, 4, 2)

\* after the signature and the fields the decoder reads before it:
\* creator_version, required_version, general_purpose_bit_flag,
\* compression_method, last_mod_file_time, last_mod_file_date, crc32,
\* compressed_size, uncompressed_size, the three lengths,
\* disk_number_start, internal_attributes
external_attributes_at ==
    4 + 2 + 2 + 2 + 2 + 2 + 2 + 4 + 4 + 4 + 2 + 2 + 2 + 2 + 2

external_attributes_bytes(data, offset) ==
    FieldBytes(data, offset, external_attributes_at, 4)

\* How a call follows the last one:
\*   "repeat": the same patch at the same offset, both successful;
\*   "undo"  : zip_make_not_executable right after zip_make_executable at
\*             the same offset, both successful;
\*   "other" : anything else.
\* For an "undo", `was` keeps the two fields as they were before the pair
\* of calls.
Sequel(op, offset, r) ==
    IF IsOk(r) /\ last.res = "Ok" /\ last.offset = offset
       /\ last.op \in {"zip_make_executable", "zip_make_not_executable"}
    THEN IF op = last.op THEN [rel |-> "repeat", was |-> <<>>]
         ELSE IF op = "zip_make_not_executable"
              THEN [rel |-> "undo",
                    was |-> creator_version_bytes(last.before, offset)
                            \o external_attributes_bytes(last.before, offset)]
         ELSE [rel |-> "other", was |-> <<>>]
    ELSE [rel |-> "other", was |-> <<>>]

\* the archives a run starts from, as bytes
Archives ==
    { ArchiveBytes(kinds, tail) : kinds \in EntryLists, tail \in Tails }
        \cup { ArchiveWithEnd(kinds, end) : kinds \in EndEntryLists, end \in Ends }
        \cup NotArchives

Init ==
    \E data \in Archives :
        /\ file_on_disk = Stream(data, 0)
        /\ initial_length = Len(data)
        /\ last = Call("open", 0, Ok(Stream(data, 0), <<>>), data)
        /\ sequel = [rel |-> "other", was |-> <<>>]

\* the offsets of the entries a listing returned
OffsetsOf(r) ==
    IF IsOk(r) THEN { r.v[i].offset : i \in 1..Len(r.v) } ELSE {}

\* the offsets of the entries a listing of the archive returns
ListedOffsets(data) == OffsetsOf(zip_get_files(Stream(data, 0)))

\* offsets no listing returned: the start of the archive, its last bytes
StrayOffsets(data) ==
    { 0, Len(data) - Len(CutHeader) }

PatchOffsets(data) == ListedOffsets(data) \cup StrayOffsets(data)

\* The call returns r: the file is as the call left it, and the caller
\* keeps what it called and what came back.
Returns(op, offset, r) ==
    /\ file_on_disk' = Stream(r.s.data, r.s.pos)
    /\ last' = Call(op, offset, r, file_on_disk.data)
    /\ sequel' = Sequel(op, offset, r)
    /\ UNCHANGED initial_length

ZipGetFiles ==
    Returns("zip_get_files", 0, zip_get_files(file_on_disk))

ZipMakeExecutable ==
    \E entry_header_offset \in PatchOffsets(file_on_disk.data) :
        Returns("zip_make_executable", entry_header_offset,
                zip_make_executable(file_on_disk, entry_header_offset))

ZipMakeNotExecutable ==
    \E entry_header_offset \in PatchOffsets(file_on_disk.data) :
        Returns("zip_make_not_executable", entry_header_offset,
                zip_make_not_executable(file_on_disk, entry_header_offset))

Next ==
    \/ ZipGetFiles
    \/ ZipMakeExecutable
    \/ ZipMakeNotExecutable

Spec == Init /\ [][Next]_vars

---------------------------------------------------------------------------
(* Properties of the patcher                                               *)

\* bit i of a 16-bit word
Bit(w, i) == (w \div (2 ^ i)) % 2

PatchOps == {"zip_make_executable", "zip_make_not_executable"}

\* the positions (from 1) at which the last call changed the archive
ChangedPositions ==
    { i \in 1..Len(last.before) :
        i > Len(file_on_disk.data) \/ file_on_disk.data[i] # last.before[i] }

\* the positions (from 1) of a field of n bytes, `at` bytes into the header
FieldPositions(offset, at, n) == (offset + at + 1)..(offset + at + n)

\* C1: after a successful zip_make_executable at offset o, the external
\* attributes at o are the old ones with the low (DOS) word kept and, in the
\* high word, the file type (bits 12-15) forced to 0o10 (regular file), the
\* execute bits 0, 3 and 6 set, and every other bit kept.
C1_ExecutableAttributes ==
    (last.op = "zip_make_executable" /\ last.res = "Ok") =>
        LET old == u32_from_le_bytes(external_attributes_bytes(last.before, last.offset))
            new == u32_from_le_bytes(external_attributes_bytes(file_on_disk.data, last.offset))
        IN /\ new[1] = old[1]
           /\ \A i \in 0..15 :
                Bit(new[2], i) = IF i = 15 THEN 1
                                 ELSE IF i \in {12, 13, 14} THEN 0
                                 ELSE IF i \in {0, 3, 6} THEN 1
                                 ELSE Bit(old[2], i)

\* a directory (type 0o04) with setgid or read bits was made executable
C1_Witness ==
    /\ last.op = "zip_make_executable" /\ last.res = "Ok"
    /\ LET old == u32_from_le_bytes(external_attributes_bytes(last.before, last.offset))
       IN Bit(old[2], 14) = 1 /\ Bit(old[2], 15) = 0 /\ Bit(old[2], 8) = 1
          /\ Bit(old[1], 4) = 1

\* C2: after a successful zip_make_executable at offset o, the high byte of
\* the creator version at o is 0x03 and its low byte is the old one.
C2_CreatorVersion ==
    (last.op = "zip_make_executable" /\ last.res = "Ok") =>
        creator_version_bytes(file_on_disk.data, last.offset)
            = << creator_version_bytes(last.before, last.offset)[1], 3 >>

\* an entry made on DOS, spec version 20, was made executable
C2_Witness ==
    /\ last.op = "zip_make_executable" /\ last.res = "Ok"
    /\ creator_version_bytes(last.before, last.offset) = <<20, 0>>

\* what read_after_signature decodes of the header at `offset`
DecodedAt(data, offset) ==
    CentralDirectoryHeader_read_after_signature(Stream(data, offset + 4))

\* C3: a patch at offset o, successful or not, changes no byte outside the
\* 2 bytes of the creator version and the 4 bytes of the external attributes
\* of the header at o, and these are the bytes the decoder takes the two
\* fields from: where the header at o decodes, the decoded fields are the
\* little-endian values of those bytes and no other decoded field has
\* changed.
C3_WritesOnlyTwoFields ==
    last.op \in PatchOps =>
        /\ Len(file_on_disk.data) = Len(last.before)
        /\ ChangedPositions \subseteq
               FieldPositions(last.offset, 4, 2) \cup FieldPositions(last.offset, external_attributes_at, 4)
        /\ LET old == DecodedAt(last.before, last.offset)
               new == DecodedAt(file_on_disk.data, last.offset)
           IN IsOk(old) =>
                /\ IsOk(new)
                /\ new.v.creator_version
                     = u16_from_le_bytes(creator_version_bytes(file_on_disk.data, last.offset))
                /\ new.v.external_attributes
                     = u32_from_le_bytes(external_attributes_bytes(file_on_disk.data, last.offset))
                /\ new.v = [old.v EXCEPT
                              !.creator_version = new.v.creator_version,
                              !.external_attributes = new.v.external_attributes]

\* a patch changed bytes of both fields of a listed entry
C3_Witness ==
    /\ last.op \in PatchOps
    /\ IsOk(DecodedAt(last.before, last.offset))
    /\ ChangedPositions \cap FieldPositions(last.offset, 4, 2) # {}
    /\ ChangedPositions \cap FieldPositions(last.offset, external_attributes_at, 4) # {}

\* C4: whatever patches were called, at whatever offsets and with whatever
\* results, the archive is as long as it was when it was opened.
C4_LengthKept ==
    Len(file_on_disk.data) = initial_length

\* a patch failed for want of bytes: the header it was pointed at ends
\* beyond the end of the archive
C4_Witness ==
    /\ last.op \in PatchOps
    /\ last.res = "Io"
    /\ last.offset + 42 > Len(last.before)
    /\ Len(file_on_disk.data) = initial_length

\* C5: a patch that returns an error has changed no byte of the archive.
C5_ErrorLeavesArchive ==
    (last.op \in PatchOps /\ last.res # "Ok") => file_on_disk.data = last.before

\* C6: a patch pointed at 4 bytes that are not the central directory
\* header's signature (PK 01 02) returns IncorrectSignature and changes no
\* byte.
C6_IncorrectSignature ==
    (/\ last.op \in PatchOps
     /\ last.offset + 4 <= Len(last.before)
     /\ SubSeq(last.before, last.offset + 1, last.offset + 4) # <<80, 75, 1, 2>>)
    => (last.res = "IncorrectSignature" /\ file_on_disk.data = last.before)

\* zip_make_not_executable was pointed at a local file header (PK 03 04)
C6_Witness ==
    /\ last.op = "zip_make_not_executable"
    /\ last.offset + 4 <= Len(last.before)
    /\ SubSeq(last.before, last.offset + 1, last.offset + 4) = <<80, 75, 3, 4>>
    /\ last.res = "IncorrectSignature"

\* a fresh listing of the archive as it is
Listing(data) == zip_get_files(Stream(data, 0))

\* C7: after a successful zip_make_executable at the offset of a listed
\* entry, a fresh listing returns that entry, executable.
C7_ListedExecutable ==
    (/\ last.op = "zip_make_executable" /\ last.res = "Ok"
     /\ last.offset \in ListedOffsets(last.before))
    => LET r == Listing(file_on_disk.data)
       IN /\ IsOk(r)
          /\ \E i \in 1..Len(r.v) :
                r.v[i].offset = last.offset /\ is_executable(r.v[i])

\* C8: after a successful patch at the offset of a listed entry, a fresh
\* listing returns as many entries as the listing before the patch, at the
\* same offsets in the same order; the entries not patched are as they
\* were, and the patched one differs at most in creator_version and
\* external_attributes.
C8_ListingKept ==
    (/\ last.op \in PatchOps /\ last.res = "Ok"
     /\ last.offset \in ListedOffsets(last.before))
    => LET old == Listing(last.before)
           new == Listing(file_on_disk.data)
       IN /\ IsOk(new)
          /\ Len(new.v) = Len(old.v)
          /\ \A i \in 1..Len(old.v) :
                /\ new.v[i].offset = old.v[i].offset
                /\ new.v[i].offset # last.offset =>
                        /\ new.v[i] = old.v[i]
                        /\ is_executable(new.v[i]) = is_executable(old.v[i])
                /\ new.v[i].offset = last.offset =>
                        new.v[i].entry =
                            [old.v[i].entry EXCEPT
                               !.creator_version = new.v[i].entry.creator_version,
                               !.external_attributes = new.v[i].entry.external_attributes]

\* C9: a successful patch repeated at the same offset, successfully, leaves
\* the archive as the first call left it.
C9_Idempotent ==
    sequel.rel = "repeat" => file_on_disk.data = last.before

\* zip_make_executable was repeated on a listed entry
C9_Witness ==
    /\ sequel.rel = "repeat"
    /\ last.op = "zip_make_executable"
    /\ last.offset \in ListedOffsets(last.before)

\* the entry's two fields before a pair of calls, as an entry
Was == [entry |-> [creator_version     |-> u16_from_le_bytes(SubSeq(sequel.was, 1, 2)),
                   external_attributes |-> u32_from_le_bytes(SubSeq(sequel.was, 3, 6))]]

WasUnixRegular ==
    /\ Was.entry.creator_version \div 256 = 3
    /\ Was.entry.external_attributes[2] \div 4096 = 8

\* C10, as stated: for an entry that is not executable, made on Unix, a
\* regular file, zip_make_executable then zip_make_not_executable at its
\* offset leave the external attributes as they were before the two calls.
C10_InverseNotExecutable ==
    (sequel.rel = "undo" /\ WasUnixRegular /\ ~is_executable(Was))
    => external_attributes_bytes(file_on_disk.data, last.offset)
          = SubSeq(sequel.was, 3, 6)

\* C10, amended: for an entry made on Unix, a regular file, with none of the
\* three execute bits set, zip_make_executable then zip_make_not_executable
\* at its offset leave the external attributes as they were before the two
\* calls.
C10_InverseNoExecuteBits ==
    (/\ sequel.rel = "undo" /\ WasUnixRegular
     /\ \A i \in {0, 3, 6} : Bit(Was.entry.external_attributes[2], i) = 0)
    => external_attributes_bytes(file_on_disk.data, last.offset)
          = SubSeq(sequel.was, 3, 6)

\* the pair of calls was made on a Unix regular file with no execute bit
\* and other permission bits
C10_Witness ==
    /\ sequel.rel = "undo" /\ WasUnixRegular
    /\ \A i \in {0, 3, 6} : Bit(Was.entry.external_attributes[2], i) = 0
    /\ Bit(Was.entry.external_attributes[2], 8) = 1
    /\ last.offset \in ListedOffsets(last.before)

---------------------------------------------------------------------------
(* Properties of zip_make_not_executable                                   *)

\* the header at `offset` has its signature and its creator_version
HeaderAt(data, offset) ==
    /\ FieldBytes(data, offset, 0, 4) = <<80, 75, 1, 2>>
    /\ creator_version_bytes(data, offset) # <<>>

\* the high byte of the creator_version of the header at `offset`
CreatorHighByte(data, offset) == creator_version_bytes(data, offset)[2]

\* C11: zip_make_not_executable at a header whose creator-version high byte
\* is not 0x03 returns success, issues no write, and leaves every byte of
\* the archive as it was, external attributes with execute bits included.
C11_NotUnixUntouched ==
    (/\ last.op = "zip_make_not_executable"
     /\ HeaderAt(last.before, last.offset)
     /\ CreatorHighByte(last.before, last.offset) # 3)
    => /\ last.res = "Ok"
       /\ last.writes = 0
       /\ file_on_disk.data = last.before

\* zip_make_not_executable was called on a listed entry made on DOS whose
\* external attributes have the owner's execute bit set
C11_Witness ==
    /\ last.op = "zip_make_not_executable"
    /\ last.offset \in ListedOffsets(last.before)
    /\ CreatorHighByte(last.before, last.offset) = 0
    /\ Bit(u32_from_le_bytes(external_attributes_bytes(last.before, last.offset))[2], 6) = 1
    /\ last.res = "Ok"

\* the external attributes of the header at `offset`, <<low word, high word>>
AttributesAt(data, offset) ==
    u32_from_le_bytes(external_attributes_bytes(data, offset))

\* the header at `offset` is of Unix origin and has its external attributes
UnixHeaderAt(data, offset) ==
    /\ HeaderAt(data, offset)
    /\ CreatorHighByte(data, offset) = 3
    /\ external_attributes_bytes(data, offset) # <<>>

\* C12: zip_make_not_executable at a header whose creator-version high byte
\* is 0x03: if one of the execute bits (bits 0, 3, 6 of the high word) is
\* set, the external attributes become the old ones with these three bits
\* clear and every other bit kept, by one write, and no other byte changes;
\* if none is set, no write is issued and no byte changes.
C12_ClearsExecuteBits ==
    (/\ last.op = "zip_make_not_executable"
     /\ UnixHeaderAt(last.before, last.offset))
    => LET old == AttributesAt(last.before, last.offset)
           new == AttributesAt(file_on_disk.data, last.offset)
       IN /\ last.res = "Ok"
          /\ IF \E i \in {0, 3, 6} : Bit(old[2], i) = 1
             THEN /\ new[1] = old[1]
                  /\ \A i \in 0..15 :
                        Bit(new[2], i) = IF i \in {0, 3, 6} THEN 0 ELSE Bit(old[2], i)
                  /\ last.writes = 1
                  /\ ChangedPositions \subseteq
                         FieldPositions(last.offset, external_attributes_at, 4)
             ELSE /\ last.writes = 0
                  /\ file_on_disk.data = last.before

\* both cases happened: the call before cleared the execute bits of a Unix
\* entry that had two of them set among other permission bits, and this
\* call, on the same entry, found none to clear
C12_Witness ==
    /\ sequel.rel = "repeat"
    /\ last.op = "zip_make_not_executable"
    /\ UnixHeaderAt(last.before, last.offset)
    /\ last.writes = 0
    /\ Bit(AttributesAt(last.before, last.offset)[2], 8) = 1

---------------------------------------------------------------------------
(* is_executable on its own: a caller that holds an entry and asks          *)

\* the creator versions the entries are drawn from: DOS 2.0, Unix 3.0,
\* Unix with every low bit, high byte 0x13, low byte 0x03, all ones
CreatorVersions == {20, 798, 1023, 4894, 3, 65535}

\* the low (DOS) words of the external attributes: nothing, directory,
\* archive, directory and archive, all but directory, all
AttributeLows == {0, 16, 32, 48, 65519, 65535}

\* the high (Unix) words: 0o100755, 0o100644, 0o100001, 0o100010, 0o100100,
\* 0o100000, 0o040755, 0o120777, 0o000111, 0o170111, 0o104666, 0
AttributeHighs ==
    {33261, 33188, 32769, 32776, 32832, 32768, 16877, 41471, 73, 61513, 35254, 0}

\* an entry as zip_get_files returns it, with these two fields
EntryWith(creator_version, external_attributes) ==
    [entry  |-> [HeaderOf(EntryKinds[1]) EXCEPT
                    !.creator_version = creator_version,
                    !.external_attributes = external_attributes],
     disk   |-> 0,
     offset |-> 0]

Entries ==
    { EntryWith(cv, <<lo, hi>>) :
        cv \in CreatorVersions, lo \in AttributeLows, hi \in AttributeHighs }

EntryInit ==
    \E e \in Entries :
        /\ file_on_disk = Stream(<<>>, 0)
        /\ initial_length = 0
        /\ last = Call("entry", 0, Ok(file_on_disk, e), <<>>)
        /\ sequel = [rel |-> "other", was |-> <<>>]

\* the caller asks whether the entry it holds is executable, and keeps the
\* entry next to the answer
IsExecutable ==
    /\ last.op = "entry"
    /\ last' = Call("is_executable", 0, Ok(file_on_disk, is_executable(last.v)), <<>>)
    /\ sequel' = [rel |-> "of", was |-> last.v]
    /\ UNCHANGED <<file_on_disk, initial_length>>

EntryNext == IsExecutable

EntrySpec == EntryInit /\ [][EntryNext]_vars

\* the entry the answer is about: its two fields
AskedVersion == sequel.was.entry.creator_version
AskedLow     == sequel.was.entry.external_attributes[1]
AskedHigh    == sequel.was.entry.external_attributes[2]

\* C13: is_executable is true exactly when the DOS directory bit (bit 4 of
\* the low word) is clear, the creator version's high byte is 3, the type
\* bits 12-15 of the high word are 0o10 (regular file) and one of the
\* execute bits 0, 3, 6 of the high word is set; with the DOS directory bit
\* set it is false whatever the rest.
C13_IsExecutable ==
    last.op = "is_executable" =>
        /\ last.v = (/\ Bit(AskedLow, 4) = 0
                     /\ AskedVersion \div 256 = 3
                     /\ AskedHigh \div 4096 = 8
                     /\ \E i \in {0, 3, 6} : Bit(AskedHigh, i) = 1)
        /\ Bit(AskedLow, 4) = 1 => last.v = FALSE

\* the answer was false for a Unix regular file with all execute bits set,
\* because of the DOS directory bit alone
C13_Witness ==
    /\ last.op = "is_executable"
    /\ last.v = FALSE
    /\ AskedLow = 16 /\ AskedVersion = 798 /\ AskedHigh = 33261

---------------------------------------------------------------------------
(* Properties of zip_get_files                                             *)

\* The central-directory location a listing of `data` settles on, where the
\* listing gets that far: the Zip64 record's if the probe resolved one, the
\* end-of-central-directory record's otherwise.
ChosenOffset(data) ==
    LET found == lookback_for_signature(
                     seek_end(Stream(data, 0), 0 - EndOfCentralDirectory_min_len).s,
                     EndOfCentralDirectory_signature)
        eocd  == EndOfCentralDirectory_read_after_signature(found.s)
        zip64 == zip64_probe(eocd.s, eocd.v)
    IN PosOfU64(IF zip64.v.some THEN zip64.v.v
                ELSE U64FromU32(eocd.v.central_dir_offset_on_disk))

\* the length of the header that starts at `pos`, from its three length
\* fields (at 28, 30 and 32 bytes into the header)
HeaderLength(data, pos) ==
    46 + u16_from_le_bytes(FieldBytes(data, pos, 28, 2))
       + u16_from_le_bytes(FieldBytes(data, pos, 30, 2))
       + u16_from_le_bytes(FieldBytes(data, pos, 32, 2))

\* The positions of the headers that follow one another from `pos` on, each
\* starting with the signature PK 01 02 and held whole by the archive, up to
\* the first position that does not start one.
RECURSIVE HeaderRun(_, _)
HeaderRun(data, pos) ==
    IF /\ FieldBytes(data, pos, 0, 4) = <<80, 75, 1, 2>>
       /\ pos + 46 <= Len(data)
       /\ pos + HeaderLength(data, pos) <= Len(data)
    THEN <<pos>> \o HeaderRun(data, pos + HeaderLength(data, pos))
    ELSE <<>>

\* the listing the last call returned came from a whole archive of the
\* model with no entries
ListedEmptyArchive ==
    /\ last.op = "zip_get_files"
    /\ last.before \in { ArchiveBytes(<<>>, tail) : tail \in Tails }

\* C14: a successful zip_get_files returns the headers that follow one
\* another from the chosen central-directory offset on, up to the first
\* 4 bytes that are not the header signature: as many entries as there are
\* such headers, in their order, each with disk 0, with the position of its
\* signature as offset and with the fields decoded from there.  An archive
\* with no entries gives an empty list, not an error.
C14_ListsHeaderRun ==
    /\ (last.op = "zip_get_files" /\ last.res = "Ok") =>
          LET run == HeaderRun(last.before, ChosenOffset(last.before))
          IN /\ Len(last.v) = Len(run)
             /\ \A i \in 1..Len(run) :
                  /\ last.v[i].offset = run[i]
                  /\ last.v[i].disk = 0
                  /\ FieldBytes(last.before, last.v[i].offset, 0, 4) = <<80, 75, 1, 2>>
                  /\ last.v[i].entry = DecodedAt(last.before, run[i]).v
    /\ ListedEmptyArchive => (last.res = "Ok" /\ last.v = <<>>)

\* a listing returned two entries, the second of them 48 bytes long and
\* followed by the end-of-central-directory record
C14_Witness ==
    /\ last.op = "zip_get_files" /\ last.res = "Ok"
    /\ Len(last.v) = 2
    /\ HeaderLength(last.before, last.v[2].offset) = 48
    /\ FieldBytes(last.before, last.v[2].offset + 48, 0, 4) = <<80, 75, 5, 6>>

\* no position from which 22 bytes remain holds the signature PK 05 06
NoEocdSignature(data) ==
    \A o \in 0..(Len(data) - EndOfCentralDirectory_min_len) :
        FieldBytes(data, o, 0, 4) # <<80, 75, 5, 6>>

\* C15: zip_get_files on a file of at least 22 bytes in which no position up
\* to its length less 22 holds the end-of-central-directory signature
\* fails with MissingEndOfCentralDirectory.
C15_MissingEocd ==
    (/\ last.op = "zip_get_files"
     /\ Len(last.before) >= EndOfCentralDirectory_min_len
     /\ NoEocdSignature(last.before))
    => last.res = "MissingEndOfCentralDirectory"

\* The archive ends in an end-of-central-directory record with an empty
\* comment and `after` bytes behind it, the record has a sentinel field, a
\* Zip64 locator for disk 0 of 1 precedes it, and the locator points at a
\* Zip64 record that decodes and counts as many entries on this disk as in
\* total.
EocdAt(data, after) ==
    EndOfCentralDirectory_read_after_signature(
        Stream(data, Len(data) - after - EndOfCentralDirectory_min_len + 4))

LocatorAt(data, after) ==
    Zip64EndOfCentralDirectoryLocator_read_after_signature(
        Stream(data, Len(data) - after - EndOfCentralDirectory_min_len - 20 + 4))

Zip64RecordAt(data, after) ==
    Zip64EndOfCentralDirectory_read_after_signature(
        Stream(data, PosOfU64(LocatorAt(data, after).v.offset_on_disk) + 4))

WellFormedZip64(data, after) ==
    /\ Len(data) >= after + EndOfCentralDirectory_min_len + 20
                        + Zip64EndOfCentralDirectory_min_len
    /\ FieldBytes(data, Len(data) - after - EndOfCentralDirectory_min_len, 0, 4)
           = <<80, 75, 5, 6>>
    /\ FieldBytes(data, Len(data) - after - 2, 0, 2) = <<0, 0>>
    /\ should_check_zip64(EocdAt(data, after).v)
    /\ EocdAt(data, after).v.disk_no = 0
    /\ FieldBytes(data, Len(data) - after - EndOfCentralDirectory_min_len - 20, 0, 4)
           = <<80, 75, 6, 7>>
    /\ LocatorAt(data, after).v.disk_no = U32(0)
    /\ LocatorAt(data, after).v.total_disks = U32(1)
    /\ FieldBytes(data, PosOfU64(LocatorAt(data, after).v.offset_on_disk), 0, 4)
           = <<80, 75, 6, 6>>
    /\ IsOk(Zip64RecordAt(data, after))
    /\ Zip64RecordAt(data, after).v.total_central_dir_entries
           = Zip64RecordAt(data, after).v.total_central_dir_entries_this_disk

\* the offsets a listing returned, in order
ReturnedOffsets == [i \in 1..Len(last.v) |-> last.v[i].offset]

\* the listing is the run of headers at the Zip64 record's offset
ListsFromZip64(after) ==
    /\ last.res = "Ok"
    /\ ReturnedOffsets =
          HeaderRun(last.before,
                    PosOfU64(Zip64RecordAt(last.before, after).v.central_dir_offset_on_disk))

\* C16: zip_get_files on an archive whose end-of-central-directory record
\* ends the file and has a sentinel field, with a Zip64 locator (disk 0 of
\* 1) pointing at a Zip64 record with equal entry counts, succeeds and
\* lists the headers from the Zip64 record's central-directory offset on.
C16_Zip64Listing ==
    (last.op = "zip_get_files" /\ WellFormedZip64(last.before, 0))
    => ListsFromZip64(0)

\* the same where 4 bytes follow the end-of-central-directory record
Zip64ListingWhenFollowed ==
    (last.op = "zip_get_files" /\ WellFormedZip64(last.before, 4))
    => ListsFromZip64(4)

\* the same for files longer than 22 bytes as C15
MissingEocdInLongerFile ==
    (/\ last.op = "zip_get_files"
     /\ Len(last.before) > EndOfCentralDirectory_min_len
     /\ NoEocdSignature(last.before))
    => last.res = "MissingEndOfCentralDirectory"

\* the position of the last end-of-central-directory signature from which
\* 22 bytes remain (the one a listing settles on), -1 if there is none
EocdPositions(data) ==
    { o \in 0..(Len(data) - EndOfCentralDirectory_min_len) :
        FieldBytes(data, o, 0, 4) = <<80, 75, 5, 6>> }

EocdPosition(data) ==
    IF EocdPositions(data) = {} THEN -1
    ELSE CHOOSE o \in EocdPositions(data) : \A p \in EocdPositions(data) : p <= o

\* the record decoded there
TheEocd(data) ==
    EndOfCentralDirectory_read_after_signature(Stream(data, EocdPosition(data) + 4))

\* the positions before the end-of-central-directory record that hold the
\* Zip64 locator's signature
LocatorPositions(data) ==
    { p \in 0..EocdPosition(data) : FieldBytes(data, p, 0, 4) = <<80, 75, 6, 7>> }

\* the last of them, and the locator decoded there
LocatorPosition(data) ==
    CHOOSE p \in LocatorPositions(data) : \A q \in LocatorPositions(data) : q <= p

TheLocator(data) ==
    Zip64EndOfCentralDirectoryLocator_read_after_signature(
        Stream(data, LocatorPosition(data) + 4))

\* a locator for disk 0 of 1 is there, and what it points at are 4 bytes
\* other than the Zip64 record's signature
LocatorPointsElsewhere(data) ==
    /\ LocatorPositions(data) # {}
    /\ IsOk(TheLocator(data))
    /\ TheLocator(data).v.disk_no = U32(0)
    /\ TheLocator(data).v.total_disks = U32(1)
    /\ FieldBytes(data, PosOfU64(TheLocator(data).v.offset_on_disk), 0, 4)
          \notin { <<>>, <<80, 75, 6, 6>> }

\* The listing has to fall back on the end-of-central-directory record: the
\* record is there, for disk 0, with a sentinel field, and no Zip64 record
\* can be resolved.
HasToFallBack(data) ==
    /\ EocdPosition(data) >= 0
    /\ IsOk(TheEocd(data))
    /\ TheEocd(data).v.disk_no = 0
    /\ should_check_zip64(TheEocd(data).v)
    /\ LocatorPositions(data) = {} \/ LocatorPointsElsewhere(data)

\* the fallback: SpannedArchive for unequal raw counts, else the run of
\* headers at the record's own offset
FellBack ==
    IF TheEocd(last.before).v.total_central_dir_entries
           # TheEocd(last.before).v.total_central_dir_entries_this_disk
    THEN last.res = "SpannedArchive"
    ELSE /\ last.res = "Ok"
         /\ ReturnedOffsets =
               HeaderRun(last.before,
                         PosOfU64(U64FromU32(
                             TheEocd(last.before).v.central_dir_offset_on_disk)))

\* C17: zip_get_files on an archive whose end-of-central-directory record
\* has a sentinel field, where no Zip64 locator signature precedes the
\* record or the locator points at bytes that are not the Zip64 record's
\* signature, uses the record's own central-directory offset after
\* comparing its two raw entry counts: unequal counts give SpannedArchive,
\* equal counts (0xFFFF twice included) give the listing from that offset.
C17_FallsBack ==
    (last.op = "zip_get_files" /\ HasToFallBack(last.before)) => FellBack

\* how many bytes follow the end-of-central-directory record and its comment
BytesAfterEocd(data) == Len(data) - TheEocd(data).s.pos

\* the same as C17 where at least 4 bytes follow the record
FallsBackWhenFollowed ==
    (/\ last.op = "zip_get_files" /\ HasToFallBack(last.before)
     /\ BytesAfterEocd(last.before) >= 4)
    => FellBack

\* the listing decoded an end-of-central-directory record
DecodedEocd(data) == EocdPosition(data) >= 0 /\ IsOk(TheEocd(data))

\* the Zip64 probe of a listing of `data`, run from where the record ends
ProbeOf(data) == zip64_probe(TheEocd(data).s, TheEocd(data).v)

\* the probe came to its end and resolved no Zip64 record
NoZip64Resolved(data) == IsOk(ProbeOf(data)) /\ ~ProbeOf(data).v.some

FindsLocator(data) ==
    /\ DecodedEocd(data)
    /\ TheEocd(data).v.disk_no = 0
    /\ should_check_zip64(TheEocd(data).v)
    /\ BytesAfterEocd(data) >= 4
    /\ LocatorPositions(data) # {}
    /\ IsOk(TheLocator(data))

\* the Zip64 record the locator points at, where the signature is there
TheZip64Record(data) ==
    Zip64EndOfCentralDirectory_read_after_signature(
        Stream(data, PosOfU64(TheLocator(data).v.offset_on_disk) + 4))

PointsAtZip64Record(data) ==
    /\ FieldBytes(data, PosOfU64(TheLocator(data).v.offset_on_disk), 0, 4)
          = <<80, 75, 6, 6>>
    /\ IsOk(TheZip64Record(data))

\* C19: where zip_get_files finds a Zip64 locator, it fails with
\* SpannedArchive if the locator's disk_no is not 0 or its total_disks not
\* 1, and also if the Zip64 record the locator points at has a
\* total_central_dir_entries other than its
\* total_central_dir_entries_this_disk.
C19_SpannedZip64 ==
    (last.op = "zip_get_files" /\ FindsLocator(last.before))
    => /\ (\/ TheLocator(last.before).v.disk_no # U32(0)
           \/ TheLocator(last.before).v.total_disks # U32(1))
            => last.res = "SpannedArchive"
       /\ (/\ TheLocator(last.before).v.disk_no = U32(0)
           /\ TheLocator(last.before).v.total_disks = U32(1)
           /\ PointsAtZip64Record(last.before)
           /\ TheZip64Record(last.before).v.total_central_dir_entries
                 # TheZip64Record(last.before).v.total_central_dir_entries_this_disk)
            => last.res = "SpannedArchive"

\* a listing failed on a locator for disk 0 of 2 that points at a Zip64
\* record with equal counts
C19_Witness ==
    /\ last.op = "zip_get_files" /\ FindsLocator(last.before)
    /\ TheLocator(last.before).v.disk_no = U32(0)
    /\ TheLocator(last.before).v.total_disks = U32(2)
    /\ PointsAtZip64Record(last.before)
    /\ TheZip64Record(last.before).v.total_central_dir_entries
          = TheZip64Record(last.before).v.total_central_dir_entries_this_disk
    /\ last.res = "SpannedArchive"

\* a listing failed on the unequal counts of the Zip64 record
SpannedByZip64Counts ==
    /\ last.op = "zip_get_files" /\ FindsLocator(last.before)
    /\ TheLocator(last.before).v.disk_no = U32(0)
    /\ TheLocator(last.before).v.total_disks = U32(1)
    /\ PointsAtZip64Record(last.before)
    /\ TheZip64Record(last.before).v.total_central_dir_entries
          # TheZip64Record(last.before).v.total_central_dir_entries_this_disk
    /\ last.res = "SpannedArchive"

---------------------------------------------------------------------------
(* The records on their own: a caller that holds a record, writes it to an  *)
(* empty stream and reads it back                                          *)

\* the longest vector a record of the model holds: one byte more than a
\* 16-bit length counts
MaxVecLen == 65536

\* in-memory values of the five record types
EocdValues ==
    { [disk_no |-> d,
       start_central_dir_disk_no |-> 0,
       total_central_dir_entries_this_disk |-> n,
       total_central_dir_entries |-> n,
       central_directory_size |-> U32(46 * n),
       central_dir_offset_on_disk |-> off,
       comment |-> c] :
        d \in {0, U16_MAX}, n \in {0, 1}, off \in {U32(4), U32_MAX},
        c \in {None, Some(<<>>), Some(<<90, 105, 112>>)} }
    \cup
    { [disk_no |-> 0,
       start_central_dir_disk_no |-> 0,
       total_central_dir_entries_this_disk |-> 0,
       total_central_dir_entries |-> 0,
       central_directory_size |-> U32(0),
       central_dir_offset_on_disk |-> U32(4),
       comment |-> Some(Zeros(n))] : n \in {U16_MAX - 1, U16_MAX, MaxVecLen} }

LocatorValues ==
    { [disk_no |-> d, offset_on_disk |-> off, total_disks |-> t] :
        d \in {U32(0), U32_MAX}, off \in {U64(0), <<1, 2, 3, 4>>, U64_MAX},
        t \in {U32(1), <<0, 1>>} }

Zip64EocdValues ==
    { [creator_version |-> 798,
       required_version |-> 45,
       disk_no |-> U32(0),
       start_central_dir_disk_no |-> U32(0),
       total_central_dir_entries_this_disk |-> n,
       total_central_dir_entries |-> n,
       central_directory_size |-> U64(46),
       central_dir_offset_on_disk |-> off,
       extensible_data_sector |-> x] :
        n \in {U64(1), U64_MAX}, off \in {U64(4), <<0, 0, 1, 0>>},
        x \in {<<>>, <<1, 2, 3>>} }

HeaderValues ==
    { [HeaderOf(EntryKinds[k]) EXCEPT
          !.extra_fields = x, !.file_comment = c,
          !.local_header_relative_offset = off] :
        k \in 1..Len(EntryKinds), x \in {<<>>, <<1, 0, 0, 0>>},
        c \in {<<>>, <<33>>}, off \in {U32(0), U32_MAX} }
    \cup
    { [HeaderOf(EntryKinds[1]) EXCEPT !.file_name = Zeros(n)] :
        n \in {U16_MAX, MaxVecLen} }

ExtraFieldValues ==
    { [uncompressed_size |-> u,
       compressed_size |-> c,
       local_header_relative_offset |-> off,
       disk_number_start |-> d] :
        u \in {None, Some(<<0, 0, 1, 0>>)},
        c \in {None, Some(<<1, 0, 1, 0>>), Some(U64_MAX)},
        off \in {None, Some(U64_MAX)},
        d \in {None, Some(<<1, 1>>)} }

Records ==
    { [type |-> "EndOfCentralDirectory", value |-> v] : v \in EocdValues }
    \cup { [type |-> "Zip64EndOfCentralDirectoryLocator", value |-> v] :
             v \in LocatorValues }
    \cup { [type |-> "Zip64EndOfCentralDirectory", value |-> v] :
             v \in Zip64EocdValues }
    \cup { [type |-> "CentralDirectoryHeader", value |-> v] : v \in HeaderValues }
    \cup { [type |-> "Zip64ExtraField", value |-> v] : v \in ExtraFieldValues }

\* write() of the record's type
WriteRecord(rec, writer) ==
    IF rec.type = "EndOfCentralDirectory"
    THEN EndOfCentralDirectory_write(rec.value, writer)
    ELSE IF rec.type = "Zip64EndOfCentralDirectoryLocator"
    THEN Zip64EndOfCentralDirectoryLocator_write(rec.value, writer)
    ELSE IF rec.type = "Zip64EndOfCentralDirectory"
    THEN Zip64EndOfCentralDirectory_write(rec.value, writer)
    ELSE IF rec.type = "CentralDirectoryHeader"
    THEN CentralDirectoryHeader_write(rec.value, writer)
    ELSE Zip64ExtraField_write(rec.value, writer)

\* what the central directory header says of a field the extra field
\* holds (the sentinel) or does not hold (0)
CdirU32(opt) == IF opt.some THEN U32_MAX ELSE U32(0)
CdirU16(opt) == IF opt.some THEN U16_MAX ELSE 0

\* The matching read function on the bytes written, after the 4 bytes of
\* the signature or the 2 bytes of the tag.
ReadRecord(rec, data) ==
    IF rec.type = "EndOfCentralDirectory"
    THEN EndOfCentralDirectory_read_after_signature(Stream(data, 4))
    ELSE IF rec.type = "Zip64EndOfCentralDirectoryLocator"
    THEN Zip64EndOfCentralDirectoryLocator_read_after_signature(Stream(data, 4))
    ELSE IF rec.type = "Zip64EndOfCentralDirectory"
    THEN Zip64EndOfCentralDirectory_read_after_signature(Stream(data, 4))
    ELSE IF rec.type = "CentralDirectoryHeader"
    THEN CentralDirectoryHeader_read_after_signature(Stream(data, 4))
    ELSE Zip64ExtraField_read_after_tag(
             Stream(data, 2),
             CdirU32(rec.value.uncompressed_size),
             CdirU32(rec.value.compressed_size),
             CdirU32(rec.value.local_header_relative_offset),
             CdirU16(rec.value.disk_number_start))

RecordInit ==
    \E rec \in Records :
        /\ file_on_disk = Stream(<<>>, 0)
        /\ initial_length = 0
        /\ last = Call("record", 0, Ok(file_on_disk, rec), <<>>)
        /\ sequel = [rel |-> "other", was |-> <<>>]

\* the record is written; the caller keeps it next to the result
RecordWritten(w) ==
    /\ file_on_disk' = Stream(w.s.data, w.s.pos)
    /\ last' = Call("write", 0, w, <<>>)
    /\ sequel' = [rel |-> "of", was |-> last.v]
    /\ UNCHANGED initial_length

RecordWrite ==
    /\ last.op = "record"
    /\ RecordWritten(WriteRecord(last.v, file_on_disk))

\* the bytes written are read back: the stream is left where the reader
\* stopped
RecordReadBack(r) ==
    /\ file_on_disk' = Stream(r.s.data, r.s.pos)
    /\ last' = Call("read", 0, r, file_on_disk.data)
    /\ UNCHANGED <<initial_length, sequel>>

RecordRead ==
    /\ last.op = "write" /\ last.res = "Ok"
    /\ RecordReadBack(ReadRecord(sequel.was, file_on_disk.data))

RecordNext ==
    \/ RecordWrite
    \/ RecordRead

RecordSpec == RecordInit /\ [][RecordNext]_vars

\* C20: a record of any of the five types, written with write() and read
\* back from the bytes written (after the signature or the tag) with the
\* matching read function, is read as the value that was written.
C20_RoundTrip ==
    last.op = "read" => (last.res = "Ok" /\ last.v = sequel.was.value)

\* the vectors of the record are short enough for their 16-bit length
\* fields, and the comment of an end-of-central-directory record shorter
\* than 0xFFFF bytes
VectorsFit(rec) ==
    /\ rec.type = "EndOfCentralDirectory" =>
          (rec.value.comment.some => Len(rec.value.comment.v) < U16_MAX)
    /\ rec.type = "CentralDirectoryHeader" =>
          /\ Len(rec.value.file_name) <= U16_MAX
          /\ Len(rec.value.extra_fields) <= U16_MAX
          /\ Len(rec.value.file_comment) <= U16_MAX

\* the same as C20 for records whose vectors fit
RoundTripWhereVectorsFit ==
    (last.op = "read" /\ VectorsFit(sequel.was)) =>
        (last.res = "Ok" /\ last.v = sequel.was.value)

---------------------------------------------------------------------------
(* The forward skip of the two patches                                     *)

\* the last call was a patch that returned Ok after its forward skip:
\* zip_make_executable always skips, zip_make_not_executable skips when the
\* creator-version high byte is 0x03
PatchedPastSkip ==
    /\ last.res = "Ok"
    /\ \/ last.op = "zip_make_executable"
       \/ /\ last.op = "zip_make_not_executable"
          /\ CreatorHighByte(last.before, last.offset) = 3

\* Where the skip started: after the 4 bytes of the signature and the 2 of
\* creator_version (read; in zip_make_executable also sought back over and
\* written again).
CursorBeforeSkip == last.offset + 4 + 2

\* Where the skip ended: external_attributes was read from there (4 bytes)
\* and, when written, sought back over and written (4 bytes), so the call
\* left the cursor 4 bytes further.
CursorAfterSkip == file_on_disk.pos - 4

\* C21 (amended): in zip_make_executable and zip_make_not_executable the
\* forward skip issued after the creator-version field is the span between
\* creator-version and external-attributes, 32 bytes, and it leaves the
\* cursor on the first byte of the external-attributes field, 38 bytes
\* after the start of the header.
C21_SkipToExternalAttributes ==
    PatchedPastSkip
    => /\ CursorAfterSkip - CursorBeforeSkip = 32
       /\ CursorAfterSkip = last.offset + external_attributes_at
       /\ CursorAfterSkip = last.offset + 38

\* both patches returned Ok past their skip at a listed entry
C21_Witness ==
    /\ PatchedPastSkip
    /\ sequel.rel = "undo"
    /\ last.offset \in ListedOffsets(last.before)
    /\ last.writes = 1

\* C21 as stated: the forward skip is 38 bytes long.
C21_SkipIs38Bytes ==
    PatchedPastSkip => CursorAfterSkip - CursorBeforeSkip = 38

---------------------------------------------------------------------------
(* lookback_for_signature on its own: a caller that holds a stream at some  *)
(* position and searches backwards from there                               *)

\* the longest stream searched
MaxLookbackLen == 8

\* the two signatures zip_get_files searches for
LookbackSignatures ==
    { EndOfCentralDirectory_signature, Zip64EndOfCentralDirectoryLocator_signature }

\* n bytes `fill`, with the bytes of `signature` at each of the offsets `at`
Planted(n, fill, at, signature) ==
    [i \in 1..n |->
        IF \E q \in at : i - q \in 1..4
        THEN u32_to_le_bytes(signature)[i - (CHOOSE q \in at : i - q \in 1..4)]
        ELSE fill]

\* The streams searched: up to MaxLookbackLen bytes, all zero or all 0x50
\* (the first byte of both signatures), with the signature nowhere, at one
\* offset, or at two.
LookbackStreams(signature) ==
    { Planted(n, fill, at, signature) :
        n \in 0..MaxLookbackLen, fill \in {0, 80},
        at \in { {}, {0}, {1}, {2}, {4}, {0, 4}, {1, 5} } }

LookbackInit ==
    \E signature \in LookbackSignatures :
        \E data \in LookbackStreams(signature) :
            \E p \in 0..Len(data) :
                /\ file_on_disk = Stream(data, p)
                /\ initial_length = Len(data)
                /\ last = Call("stream", p, Ok(file_on_disk, signature), data)
                /\ sequel = [rel |-> "other", was |-> <<>>]

\* the caller searches backwards from where the stream stands, and keeps
\* the signature it searched for next to the answer
LookbackReturns(r) ==
    /\ file_on_disk' = Stream(r.s.data, r.s.pos)
    /\ last' = Call("lookback_for_signature", file_on_disk.pos, r, file_on_disk.data)
    /\ sequel' = [rel |-> "of", was |-> last.v]
    /\ UNCHANGED initial_length

LookbackForSignature ==
    /\ last.op = "stream"
    /\ LookbackReturns(lookback_for_signature(file_on_disk, last.v))

LookbackNext == LookbackForSignature

LookbackSpec == LookbackInit /\ [][LookbackNext]_vars

\* the signature searched for, the stream searched, and where the search
\* started
Searched      == sequel.was
SearchedBytes == last.before
SearchedFrom  == last.offset

\* the 4 bytes at offset q of the stream searched are the signature
HoldsSignature(q) ==
    /\ q + 4 <= Len(SearchedBytes)
    /\ SubSeq(SearchedBytes, q + 1, q + 4) = u32_to_le_bytes(Searched)

\* C22: lookback_for_signature called with the stream at position 0, where
\* the 4 bytes at offset 0 (if any) are not the signature, returns Ok(false)
\* and no error.
C22_NotFoundAtStart ==
    (/\ last.op = "lookback_for_signature"
     /\ SearchedFrom = 0
     /\ ~HoldsSignature(0))
    => /\ last.res = "Ok"
       /\ last.v = FALSE

\* The cause on its own: from position 0 without the signature there, the
\* search ends in an I/O error, from the read where fewer than 4 bytes
\* exist and from the seek to -1 otherwise.
LookbackAtStartFails ==
    (/\ last.op = "lookback_for_signature"
     /\ SearchedFrom = 0
     /\ ~HoldsSignature(0))
    => /\ last.res = "Io"
       /\ file_on_disk.pos = IF Len(SearchedBytes) < 4 THEN Len(SearchedBytes) ELSE 4

\* the offsets the search has to test: p, p-1, ..., 0
SearchWindow == 0..SearchedFrom

\* the greatest offset of the window that holds the signature
GreatestHolding ==
    CHOOSE q \in SearchWindow :
        /\ HoldsSignature(q)
        /\ \A r \in SearchWindow : HoldsSignature(r) => r <= q

\* C23: lookback_for_signature started at position p returns found, with
\* the stream just after the signature, for the greatest offset q <= p
\* that holds the signature, q = 0 included, and returns not-found only
\* when no offset in 0..p holds it.
C23_ExhaustiveScan ==
    (/\ last.op = "lookback_for_signature"
     /\ last.res = "Ok")
    => IF \E q \in SearchWindow : HoldsSignature(q)
       THEN /\ last.v = TRUE
            /\ file_on_disk.pos = GreatestHolding + 4
       ELSE last.v = FALSE

\* The cause on its own: a search that returns Ok behaves as C23 says but
\* for offset 0, which it tests only when it starts there.
TestedWindow == IF SearchedFrom = 0 THEN {0} ELSE 1..SearchedFrom

ScanDownToOffsetOne ==
    (/\ last.op = "lookback_for_signature"
     /\ last.res = "Ok")
    => IF \E q \in TestedWindow : HoldsSignature(q)
       THEN /\ last.v = TRUE
            /\ \E q \in TestedWindow :
                   /\ HoldsSignature(q)
                   /\ \A r \in TestedWindow : HoldsSignature(r) => r <= q
                   /\ file_on_disk.pos = q + 4
       ELSE last.v = FALSE

---------------------------------------------------------------------------
(* The readers of zip_format.rs on their own: a caller that holds bytes it  *)
(* did not write and decodes them                                           *)

\* the sizes a Zip64 end-of-central-directory record declares: around the
\* length of the fixed fields (44) and around min_len() (56), and two that
\* exceed every stream
DeclaredSizes ==
    { U64(n) : n \in {0, 43, 44, 45, 55, 56, 57, 60} } \cup { <<0, 1, 0, 0>>, U64_MAX }

\* the bytes that follow the fixed fields
TrailingLengths == {0, 1, 4, 13}

\* the 44 bytes of the fixed fields, each byte different
FixedFieldBytes == [i \in 1..44 |-> i]

\* What follows the signature of a Zip64 end-of-central-directory record:
\* the declared size, the fixed fields, `trailing` bytes more.
Zip64RecordBytes(size, trailing) ==
    u64_to_le_bytes(size) \o FixedFieldBytes \o [i \in 1..trailing |-> 100 + i]

\* the same, cut short within the size and within the fixed fields
Zip64RecordStreams ==
    { Zip64RecordBytes(size, trailing) :
        size \in DeclaredSizes, trailing \in TrailingLengths }
    \cup { SubSeq(Zip64RecordBytes(size, 0), 1, cut) :
             size \in { U64(0), U64(56), U64(60) }, cut \in {0, 4, 8, 30} }

\* What the central directory header says of the four fields a Zip64 extra
\* field stands in for: the sentinel, or a value of its own.
CdirFields ==
    [ uncompressed_size            : { U32_MAX, U32(7) },
      compressed_size              : { U32_MAX, U32(0) },
      local_header_relative_offset : { U32_MAX, <<65535, 32767>> },
      disk_number_start            : { U16_MAX, 0 } ]

\* the lengths a Zip64 extra field declares, and the bytes that follow
ExtraFieldLengths == {0, 4, 8, 12, 16, 20, 24, 28, 32, 65535}
ExtraFieldPayloads == {0, 12, 28}

\* what follows the tag of a Zip64 extra field
ExtraFieldBytes(length, payload) ==
    u16_to_le_bytes(length) \o [i \in 1..payload |-> i]

\* End-of-central-directory records as decoded: each 16-bit field zero, one
\* below the sentinel or the sentinel; each 32-bit field zero, 0x0000FFFF
\* or the sentinel.
DecodedEocds ==
    [ disk_no                             : {0, U16_MAX - 1, U16_MAX},
      start_central_dir_disk_no           : {0, U16_MAX - 1, U16_MAX},
      total_central_dir_entries_this_disk : {0, U16_MAX - 1, U16_MAX},
      total_central_dir_entries           : {0, U16_MAX - 1, U16_MAX},
      central_directory_size              : {U32(0), U32(U16_MAX), U32_MAX},
      central_dir_offset_on_disk          : {U32(0), U32(U16_MAX), U32_MAX},
      comment                             : {None} ]

FormatInit ==
    /\ \/ \E eocd \in DecodedEocds :
              /\ file_on_disk = Stream(<<>>, 0)
              /\ last = Call("EndOfCentralDirectory", 0, Ok(file_on_disk, eocd), <<>>)
       \/ \E data \in Zip64RecordStreams :
              /\ file_on_disk = Stream(data, 0)
              /\ last = Call("Zip64EndOfCentralDirectory", 0, Ok(file_on_disk, <<>>), data)
       \/ \E cdir \in CdirFields, length \in ExtraFieldLengths, payload \in ExtraFieldPayloads :
              /\ file_on_disk = Stream(ExtraFieldBytes(length, payload), 0)
              /\ last = Call("Zip64ExtraField", 0, Ok(file_on_disk, cdir), file_on_disk.data)
    /\ initial_length = Len(file_on_disk.data)
    /\ sequel = [rel |-> "other", was |-> <<>>]

\* the reader returns r: the stream is as the reader left it, and the
\* caller keeps what it passed next to what came back
FormatReturns(op, r) ==
    /\ file_on_disk' = Stream(r.s.data, r.s.pos)
    /\ last' = Call(op, 0, r, file_on_disk.data)
    /\ sequel' = [rel |-> "of", was |-> last.v]
    /\ UNCHANGED initial_length

ReadZip64EndOfCentralDirectory ==
    /\ last.op = "Zip64EndOfCentralDirectory"
    /\ FormatReturns("Zip64EndOfCentralDirectory_read_after_signature",
                     Zip64EndOfCentralDirectory_read_after_signature(file_on_disk))

ReadZip64ExtraField ==
    /\ last.op = "Zip64ExtraField"
    /\ FormatReturns("Zip64ExtraField_read_after_tag",
                     Zip64ExtraField_read_after_tag(file_on_disk,
                         last.v.uncompressed_size, last.v.compressed_size,
                         last.v.local_header_relative_offset,
                         last.v.disk_number_start))

\* the caller asks whether the record it decoded calls for Zip64 records
ShouldCheckZip64 ==
    /\ last.op = "EndOfCentralDirectory"
    /\ FormatReturns("should_check_zip64", Ok(file_on_disk, should_check_zip64(last.v)))

FormatNext ==
    \/ ReadZip64EndOfCentralDirectory
    \/ ReadZip64ExtraField
    \/ ShouldCheckZip64

FormatSpec == FormatInit /\ [][FormatNext]_vars

\* the size the record declared, as a number (FarPos for one beyond every
\* stream)
DeclaredSize == PosOfU64(u64_from_le_bytes(SubSeq(last.before, 1, 8)))

\* the length of the fixed fields of a Zip64 end-of-central-directory
\* record: creator_version, required_version, disk_no,
\* start_central_dir_disk_no, the two counts, the size, the offset
Zip64FixedFieldsLen == 2 + 2 + 4 + 4 + 8 + 8 + 8 + 8

\* a Zip64 record was read from a stream that holds its size
ReadZip64Record ==
    /\ last.op = "Zip64EndOfCentralDirectory_read_after_signature"
    /\ Len(last.before) >= 8

\* C24: Zip64EndOfCentralDirectory::read_after_signature fails with
\* RecordTooSmall when the declared size is below the fixed-field length
\* (44 bytes), and for every declared size >= 44 it reads the fixed fields
\* and then exactly declared_size - 44 trailing bytes as the extensible data
\* sector, without underflow or panic.
C24_Zip64DeclaredSize ==
    ReadZip64Record
    => IF DeclaredSize < Zip64FixedFieldsLen
       THEN last.res = "RecordTooSmall"
       ELSE /\ last.res # "Panic"
            /\ last.res = "Ok"
                   => /\ Len(last.v.extensible_data_sector)
                            = DeclaredSize - Zip64FixedFieldsLen
                      /\ file_on_disk.pos = 8 + DeclaredSize

\* The causes on their own: sizes from 44 up to min_len() - 1 = 55 panic
\* where the fixed fields are there to read, as does a size of u64::MAX,
\* and from min_len() = 56 on the extensible data sector is
\* declared_size - 56 bytes.
Zip64DeclaredSizeFromMinLen ==
    ReadZip64Record
    => IF DeclaredSize < Zip64FixedFieldsLen
       THEN last.res = "RecordTooSmall"
       ELSE IF DeclaredSize < Zip64EndOfCentralDirectory_min_len
       THEN last.res = "Panic"
       ELSE IF SubSeq(last.before, 1, 8) = u64_to_le_bytes(U64_MAX)
       THEN last.res = "Panic"
       ELSE /\ last.res \in {"Ok", "Io"}
            /\ last.res = "Ok"
                   <=> Len(last.before) >= 8 + Zip64FixedFieldsLen + DeclaredSize
                                               - Zip64EndOfCentralDirectory_min_len
            /\ last.res = "Ok"
                   => /\ Len(last.v.extensible_data_sector)
                            = DeclaredSize - Zip64EndOfCentralDirectory_min_len
                      /\ file_on_disk.pos = 8 + Zip64FixedFieldsLen
                              + Len(last.v.extensible_data_sector)

---------------------------------------------------------------------------
(* The length a written Zip64 end-of-central-directory record declares     *)

\* a Zip64 end-of-central-directory record was written
WroteZip64Record ==
    /\ last.op = "write"
    /\ last.res = "Ok"
    /\ sequel.was.type = "Zip64EndOfCentralDirectory"

\* the length field of the record written: the 8 bytes after the signature
WrittenLength == u64_from_le_bytes(SubSeq(file_on_disk.data, 5, 12))

\* C25: Zip64EndOfCentralDirectory::write emits a length field equal to the
\* size of the whole record including the extensible data sector but
\* excluding the 4-byte signature and the 8-byte length field, i.e.
\* 44 + len(extensible_data_sector).
C25_Zip64WrittenLength ==
    WroteZip64Record
    => /\ WrittenLength = U64(Zip64FixedFieldsLen
                              + Len(sequel.was.value.extensible_data_sector))
       /\ WrittenLength = U64(Len(file_on_disk.data) - 4 - 8)

\* The cause on its own: the length written counts the signature and the
\* length field as well; it is the length of the whole record.
Zip64WrittenLengthIsWholeRecord ==
    WroteZip64Record
    => /\ WrittenLength = U64(4 + 8 + Zip64FixedFieldsLen
                              + Len(sequel.was.value.extensible_data_sector))
       /\ WrittenLength = U64(Len(file_on_disk.data))

---------------------------------------------------------------------------
(* The Zip64 extra field, read against the header's sentinels               *)

\* a Zip64 extra field was read; what the header said of the four fields
ReadExtraField == last.op = "Zip64ExtraField_read_after_tag"
Cdir == sequel.was

\* which of the four fields the header flags with its sentinel
FlagsUncompressedSize == Cdir.uncompressed_size = <<65535, 65535>>
FlagsCompressedSize   == Cdir.compressed_size = <<65535, 65535>>
FlagsOffset           == Cdir.local_header_relative_offset = <<65535, 65535>>
FlagsDisk             == Cdir.disk_number_start = 65535

Width(flagged, n) == IF flagged THEN n ELSE 0

\* the length the flags call for
FlaggedLength ==
    Width(FlagsUncompressedSize, 8) + Width(FlagsCompressedSize, 8)
        + Width(FlagsOffset, 8) + Width(FlagsDisk, 4)

\* the length the field declares: its first 2 bytes, little-endian
DeclaredLength == last.before[1] + 256 * last.before[2]

\* the n bytes at offset `at` of the bytes read, as 16-bit limbs, low first
LimbsAt(at, n) ==
    [k \in 1..(n \div 2) |->
        last.before[at + 2 * k - 1] + 256 * last.before[at + 2 * k]]

\* a field that is flagged holds the bytes at `at`, one that is not is None
FieldIs(opt, flagged, at, n) ==
    IF flagged THEN opt.some /\ opt.v = LimbsAt(at, n)
    ELSE ~opt.some

\* C26: Zip64ExtraField::read_after_tag expects 8 bytes for each of
\* uncompressed size = 0xFFFFFFFF, compressed size = 0xFFFFFFFF, local
\* header offset = -1, and 4 for disk number = 0xFFFF.  A declared length
\* that differs gives UnexpectedExtraDataLength(declared length) with only
\* the 2 bytes of the length consumed; otherwise exactly the flagged fields
\* are read, in the order uncompressed size, compressed size, local header
\* offset, disk number, and the others are None.
C26_ExtraFieldLength ==
    ReadExtraField
    => IF DeclaredLength # FlaggedLength
       THEN /\ last.res = "UnexpectedExtraDataLength"
            /\ last.v = DeclaredLength
            /\ file_on_disk.pos = 2
       ELSE IF Len(last.before) < 2 + FlaggedLength
       THEN last.res = "Io"
       ELSE /\ last.res = "Ok"
            /\ file_on_disk.pos = 2 + FlaggedLength
            /\ FieldIs(last.v.uncompressed_size, FlagsUncompressedSize, 2, 8)
            /\ FieldIs(last.v.compressed_size, FlagsCompressedSize,
                       2 + Width(FlagsUncompressedSize, 8), 8)
            /\ FieldIs(last.v.local_header_relative_offset, FlagsOffset,
                       2 + Width(FlagsUncompressedSize, 8)
                         + Width(FlagsCompressedSize, 8), 8)
            /\ FieldIs(last.v.disk_number_start, FlagsDisk,
                       2 + Width(FlagsUncompressedSize, 8)
                         + Width(FlagsCompressedSize, 8)
                         + Width(FlagsOffset, 8), 4)

\* a field flagging the compressed size and the disk number, declared as
\* 12 bytes, was read: the second and the fourth field, the others None
C26_Witness ==
    /\ ReadExtraField
    /\ ~FlagsUncompressedSize /\ FlagsCompressedSize /\ ~FlagsOffset /\ FlagsDisk
    /\ DeclaredLength = 12
    /\ last.res = "Ok"
    /\ last.v.compressed_size.some /\ ~last.v.uncompressed_size.some

\* a declared length of 16 where 8 bytes are flagged, 28 bytes following:
\* the error carries 16 and nothing after the length was consumed
ExtraFieldLengthMismatch ==
    /\ ReadExtraField
    /\ FlaggedLength = 8
    /\ DeclaredLength = 16
    /\ Len(last.before) = 30
    /\ last.res = "UnexpectedExtraDataLength"
    /\ last.v = 16
    /\ file_on_disk.pos = 2

---------------------------------------------------------------------------
(* The 16-bit length prefixes the encoders write                           *)

\* the record written or read back has length prefixes
Prefixed == sequel.was.type \in {"EndOfCentralDirectory", "CentralDirectoryHeader"}

\* the 16-bit field at offset `at` of the bytes written
PrefixAt(at) == file_on_disk.data[at + 1] + 256 * file_on_disk.data[at + 2]

Capped(n) == IF n < 65535 THEN n ELSE 65535

\* the vectors the record written holds, in the order written, and where
\* the prefix of each is written
WrittenVectors ==
    IF sequel.was.type = "EndOfCentralDirectory"
    THEN IF sequel.was.value.comment.some
         THEN << [data |-> sequel.was.value.comment.v, prefix_at |-> 4 + 16] >>
         ELSE << >>
    ELSE << [data |-> sequel.was.value.file_name,    prefix_at |-> 4 + 24],
            [data |-> sequel.was.value.extra_fields, prefix_at |-> 4 + 26],
            [data |-> sequel.was.value.file_comment, prefix_at |-> 4 + 28] >>

\* the vectors the decoder read for them
ReadVectors ==
    IF sequel.was.type = "EndOfCentralDirectory"
    THEN IF sequel.was.value.comment.some
         THEN << IF last.v.comment.some THEN last.v.comment.v ELSE <<>> >>
         ELSE << >>
    ELSE << last.v.file_name, last.v.extra_fields, last.v.file_comment >>

\* C27: every record encoder writes each 16-bit length prefix (EOCD
\* comment, central-directory file name, extra field, file comment) as
\* min(actual data length, 0xFFFF), and a decoder reading the emitted
\* prefix consumes exactly the data bytes the encoder wrote after it.
C27_LengthPrefixes ==
    /\ (last.op = "write" /\ last.res = "Ok" /\ Prefixed)
       => \A i \in 1..Len(WrittenVectors) :
              PrefixAt(WrittenVectors[i].prefix_at)
                  = Capped(Len(WrittenVectors[i].data))
    /\ (last.op = "read" /\ Prefixed)
       => /\ last.res = "Ok"
          /\ file_on_disk.pos = Len(file_on_disk.data)
          /\ \A i \in 1..Len(WrittenVectors) :
                 ReadVectors[i] = WrittenVectors[i].data

\* The cause on its own: the prefixes are capped as stated, and the decoder
\* consumes what was written wherever no vector is longer than 0xFFFF bytes
\* and the comment of an end-of-central-directory record is shorter than
\* that.
LengthPrefixesWhereVectorsFit ==
    /\ (last.op = "write" /\ last.res = "Ok" /\ Prefixed)
       => \A i \in 1..Len(WrittenVectors) :
              PrefixAt(WrittenVectors[i].prefix_at)
                  = Capped(Len(WrittenVectors[i].data))
    /\ (last.op = "read" /\ Prefixed /\ VectorsFit(sequel.was))
       => /\ last.res = "Ok"
          /\ file_on_disk.pos = Len(file_on_disk.data)
          /\ \A i \in 1..Len(WrittenVectors) :
                 ReadVectors[i] = WrittenVectors[i].data

\* a file name of 65536 bytes was written behind the prefix 0xFFFF, and the
\* decoder stopped one byte short of the end
CappedPrefixLeavesByte ==
    /\ last.op = "read"
    /\ sequel.was.type = "CentralDirectoryHeader"
    /\ Len(sequel.was.value.file_name) = 65536
    /\ last.res = "Ok"
    /\ file_on_disk.pos = Len(file_on_disk.data) - 1

---------------------------------------------------------------------------
(* should_check_zip64                                                      *)

\* the 16-bit and the 32-bit fields of the record asked about
SixteenBitFields ==
    { sequel.was.disk_no, sequel.was.start_central_dir_disk_no,
      sequel.was.total_central_dir_entries_this_disk,
      sequel.was.total_central_dir_entries }

ThirtyTwoBitFields ==
    { sequel.was.central_directory_size, sequel.was.central_dir_offset_on_disk }

\* C28: EndOfCentralDirectory::should_check_zip64() is true iff at least
\* one of disk_no, start_central_dir_disk_no,
\* total_central_dir_entries_this_disk, total_central_dir_entries equals
\* 0xFFFF, or central_directory_size or central_dir_offset_on_disk equals
\* 0xFFFFFFFF.
C28_ShouldCheckZip64 ==
    last.op = "should_check_zip64"
    => /\ last.res = "Ok"
       /\ last.v <=> \/ 65535 \in SixteenBitFields
                     \/ \E f \in ThirtyTwoBitFields : f[1] = 65535 /\ f[2] = 65535

\* only start_central_dir_disk_no is at its sentinel, the 32-bit fields
\* are 0x0000FFFF, and the answer is yes
C28_Witness ==
    /\ last.op = "should_check_zip64"
    /\ sequel.was.start_central_dir_disk_no = 65535
    /\ SixteenBitFields = {65534, 65535}
    /\ ThirtyTwoBitFields = { <<65535, 0>> }
    /\ last.v = TRUE

---------------------------------------------------------------------------
(* The command-line tool: main of zmx, from the archive opened to its exit  *)

\* the entry names asked for on the command line: the names of the first
\* three kinds of entry and one that no archive of the model holds
RequestedNames == { <<97>>, <<98>>, <<99>>, <<120>> }

\* the most names one command line holds
MaxRequested == 2

\* opts.executable_files
CommandLines ==
    UNION { [1..n -> RequestedNames] : n \in 0..MaxRequested }

\* lines 35-38: the listed entries by name; of two entries with one name
\* the one listed later stays in the map
name_to_entry(entries) ==
    [name \in { entries[i].entry.file_name : i \in 1..Len(entries) } |->
        entries[CHOOSE i \in 1..Len(entries) :
                    /\ entries[i].entry.file_name = name
                    /\ \A j \in (i + 1)..Len(entries) :
                           entries[j].entry.file_name # name]]

\* lines 40-47: some name asked for is not in the map
bad(names, executable_files) ==
    \E i \in 1..Len(executable_files) : executable_files[i] \notin DOMAIN names

\* the keys of a BTreeMap in the order its iterator yields them
RECURSIVE Ascending(_)
Ascending(keys) ==
    IF keys = {} THEN <<>>
    ELSE <<CHOOSE k \in keys : \A other \in keys : k <= other>>
             \o Ascending(keys \ {CHOOSE k \in keys : \A other \in keys : k <= other})

\* A faulty variant of lines 54-60: the locations are kept in the order of
\* the command line.
exec_location_to_path_as_asked(names, executable_files) ==
    [i \in 1..Len(executable_files) |-> names[executable_files[i]].offset]

\* lines 54-60: the offsets of the entries asked for, a BTreeMap's keys
exec_location_to_path(names, executable_files) ==
    Ascending({ names[executable_files[i]].offset : i \in 1..Len(executable_files) })

\* What main holds between its steps:
\*   at      : where it stands ("listing", "validating", "patching", or
\*             "exited")
\*   exit    : how it ended ("SUCCESS", "FAILURE", "panic"), "" before
\*   opened  : the bytes of the archive as opened
\*   executable_files, entries, exec_location_to_path: the locals
\*   patched : the offsets zip_make_executable was called with, in turn
Main(at, exit, locals) == [rel |-> at, exit |-> exit, was |-> locals]

CliInit ==
    \E data \in { ArchiveBytes(kinds, tail) : kinds \in EntryLists, tail \in Tails }
                    \cup NotArchives :
        \E executable_files \in CommandLines :
            /\ file_on_disk = Stream(data, 0)
            /\ initial_length = Len(data)
            /\ last = Call("open", 0, Ok(file_on_disk, <<>>), data)
            /\ sequel = Main("listing", "",
                             [opened |-> data,
                              executable_files |-> executable_files,
                              entries |-> <<>>,
                              exec_location_to_path |-> <<>>,
                              patched |-> <<>>])

\* a library call of main returns
CliReturns(op, offset, r) ==
    /\ file_on_disk' = Stream(r.s.data, r.s.pos)
    /\ last' = Call(op, offset, r, file_on_disk.data)
    /\ UNCHANGED initial_length

\* lines 33-34: the listing, or the panic of expect
CliList ==
    /\ sequel.rel = "listing"
    /\ CliReturns("zip_get_files", 0, zip_get_files(file_on_disk))
    /\ sequel' = IF last'.res = "Ok"
                 THEN Main("validating", "", [sequel.was EXCEPT !.entries = last'.v])
                 ELSE Main("exited", "panic", sequel.was)

\* lines 35-60: every name is looked up; one missing ends the run with
\* FAILURE, else the locations to patch are collected
CliValidate ==
    /\ sequel.rel = "validating"
    /\ sequel' =
          IF bad(name_to_entry(sequel.was.entries), sequel.was.executable_files)
          THEN Main("exited", "FAILURE", sequel.was)
          ELSE Main("patching", "",
                    [sequel.was EXCEPT !.exec_location_to_path =
                        exec_location_to_path(name_to_entry(sequel.was.entries),
                                              sequel.was.executable_files)])
    /\ UNCHANGED <<file_on_disk, initial_length, last>>

\* lines 62-66: the next location is patched, or the run panics
CliPatch ==
    /\ sequel.rel = "patching"
    /\ sequel.was.exec_location_to_path # <<>>
    /\ CliReturns("zip_make_executable", Head(sequel.was.exec_location_to_path),
                  zip_make_executable(file_on_disk,
                                      Head(sequel.was.exec_location_to_path)))
    /\ sequel' =
          IF last'.res = "Ok"
          THEN Main("patching", "",
                    [sequel.was EXCEPT
                        !.exec_location_to_path = Tail(@),
                        !.patched = Append(@, Head(sequel.was.exec_location_to_path))])
          ELSE Main("exited", "panic",
                    [sequel.was EXCEPT
                        !.patched = Append(@, Head(sequel.was.exec_location_to_path))])

\* line 69: nothing left to patch
CliExit ==
    /\ sequel.rel = "patching"
    /\ sequel.was.exec_location_to_path = <<>>
    /\ sequel' = Main("exited", "SUCCESS", sequel.was)
    /\ UNCHANGED <<file_on_disk, initial_length, last>>

CliNext ==
    \/ CliList
    \/ CliValidate
    \/ CliPatch
    \/ CliExit

CliSpec == CliInit /\ [][CliNext]_vars

\* the names asked for, and the names of the entries listed
Asked == { sequel.was.executable_files[i] : i \in 1..Len(sequel.was.executable_files) }
ListedEntries == sequel.was.entries
ListedNames == { ListedEntries[i].entry.file_name : i \in 1..Len(ListedEntries) }
Patched == sequel.was.patched

\* the listing succeeded and main went on
Listed == sequel.rel \in {"validating", "patching"} \/ sequel.exit \in {"SUCCESS", "FAILURE"}

\* C29: the command-line tool validates every requested entry name against
\* the listing before issuing any patch.  If a requested name is absent
\* from the central directory it exits with failure, zip_make_executable is
\* never called and the archive is unchanged; otherwise it patches the
\* requested entries in ascending header-offset order: each offset patched
\* is that of a listed entry bearing a requested name, each requested name
\* has its entry patched by the time of a successful exit, and each patch
\* is at a greater offset than the one before.
C29_ValidatesThenPatches ==
    /\ Patched # <<>> => (Listed /\ Asked \subseteq ListedNames)
    /\ (Listed /\ sequel.rel = "exited" /\ ~(Asked \subseteq ListedNames))
       => /\ sequel.exit = "FAILURE"
          /\ Patched = <<>>
          /\ file_on_disk.data = sequel.was.opened
    /\ (Listed /\ sequel.rel = "exited" /\ Asked \subseteq ListedNames)
       => /\ sequel.exit = "SUCCESS"
          /\ \A name \in Asked :
                 \E i \in 1..Len(ListedEntries), k \in 1..Len(Patched) :
                     /\ ListedEntries[i].entry.file_name = name
                     /\ ListedEntries[i].offset = Patched[k]
    /\ \A k \in 1..Len(Patched) :
           \E i \in 1..Len(ListedEntries) :
               /\ ListedEntries[i].offset = Patched[k]
               /\ ListedEntries[i].entry.file_name \in Asked
    /\ \A k \in 1..(Len(Patched) - 1) : Patched[k] < Patched[k + 1]

\* two entries asked for in the reverse of their order in the archive, both
\* patched, and the run exited with success
C29_Witness ==
    /\ sequel.exit = "SUCCESS"
    /\ sequel.was.executable_files = << <<99>>, <<98>> >>
    /\ Len(Patched) = 2

\* a name is missing while another is there: failure, nothing patched
MissingNameFails ==
    /\ sequel.exit = "FAILURE"
    /\ sequel.was.executable_files = << <<98>>, <<120>> >>
    /\ <<98>> \in ListedNames
    /\ Patched = <<>>

---------------------------------------------------------------------------
(* io_ext.rs on its own: every width, both byte orders, signed and         *)
(* unsigned                                                                *)
(*                                                                         *)
(* An unsigned value of 1 or 2 bytes is a number; one of 4, 8 or 16 bytes  *)
(* is the tuple of its 16-bit limbs, low limb first.  A signed value is    *)
(* its sign and the magnitude, an unsigned value of the same width.        *)

Reversed(bytes) == [i \in 1..Len(bytes) |-> bytes[Len(bytes) - i + 1]]

\* $int_ty::from_le_bytes: the first byte is the least significant
from_le_bytes(bytes) ==
    IF Len(bytes) = 1 THEN bytes[1]
    ELSE IF Len(bytes) = 2 THEN bytes[1] + 256 * bytes[2]
    ELSE [k \in 1..(Len(bytes) \div 2) |-> bytes[2 * k - 1] + 256 * bytes[2 * k]]

\* A faulty variant of from_be_bytes: the bytes are taken in the order of
\* from_le_bytes.
from_be_bytes_low_first(bytes) == from_le_bytes(bytes)

\* $int_ty::from_be_bytes: the first byte is the most significant
from_be_bytes(bytes) == from_le_bytes(Reversed(bytes))

\* $int_ty::to_le_bytes, to_be_bytes of a value $byte_count bytes wide
to_le_bytes(val, byte_count) ==
    IF byte_count = 1 THEN <<val>>
    ELSE IF byte_count = 2 THEN <<val % 256, val \div 256>>
    ELSE [i \in 1..byte_count |->
             IF i % 2 = 1 THEN val[(i + 1) \div 2] % 256 ELSE val[i \div 2] \div 256]

to_be_bytes(val, byte_count) == Reversed(to_le_bytes(val, byte_count))

\* implement_read (and read_u8): the bytes read_exact returned, decoded, or
\* its error
implement_read_decoded(r, order) ==
    IF ~IsOk(r) THEN Fail(r)
    ELSE Ok(r.s, IF order = "be" THEN from_be_bytes(r.v) ELSE from_le_bytes(r.v))

implement_read(s, byte_count, order) ==
    implement_read_decoded(read_exact(s, byte_count), order)

\* implement_write (and write_u8): write_all of the bytes of the value
implement_write(s, val, byte_count, order) ==
    write_all(s, IF order = "be" THEN to_be_bytes(val, byte_count)
                 ELSE to_le_bytes(val, byte_count))

\* the unsigned functions of ReadExt and WriteExt, by width and byte order
ReadExt_unsigned(s, byte_count, order) ==
    IF order = "le" /\ byte_count = 2 THEN read_u16_le(s)
    ELSE IF order = "le" /\ byte_count = 4 THEN read_u32_le(s)
    ELSE IF order = "le" /\ byte_count = 8 THEN read_u64_le(s)
    ELSE implement_read(s, byte_count, order)

WriteExt_unsigned(s, val, byte_count, order) ==
    IF order = "le" /\ byte_count = 2 THEN write_u16_le(s, val)
    ELSE IF order = "le" /\ byte_count = 4 THEN write_u32_le(s, val)
    ELSE IF order = "le" /\ byte_count = 8 THEN write_u64_le(s, val)
    ELSE implement_write(s, val, byte_count, order)

\* the highest bit of an unsigned value
sign_bit(val, byte_count) ==
    IF byte_count = 1 THEN val >= 128
    ELSE IF byte_count = 2 THEN val >= 32768
    ELSE val[byte_count \div 2] >= 32768

\* 0 - val in the width of val (wrapping): every bit inverted, plus one
wrapping_neg(val, byte_count) ==
    IF byte_count = 1 THEN (256 - val) % 256
    ELSE IF byte_count = 2 THEN (65536 - val) % 65536
    ELSE [k \in 1..(byte_count \div 2) |->
             IF \A j \in 1..k : val[j] = 0 THEN 0
             ELSE IF \A j \in 1..(k - 1) : val[j] = 0 THEN 65536 - val[k]
             ELSE 65535 - val[k]]

\* `as $signed_ty`: the bit pattern read as two's complement
as_signed(val, byte_count) ==
    IF sign_bit(val, byte_count)
    THEN [negative |-> TRUE, magnitude |-> wrapping_neg(val, byte_count)]
    ELSE [negative |-> FALSE, magnitude |-> val]

\* `as $unsigned_ty`: the two's complement bit pattern of the value
as_unsigned(value, byte_count) ==
    IF value.negative THEN wrapping_neg(value.magnitude, byte_count)
    ELSE value.magnitude

\* implement_read_signed: Ok(self.$unsigned_name()? as $signed_ty)
implement_read_signed(r, byte_count) ==
    IF ~IsOk(r) THEN Fail(r) ELSE Ok(r.s, as_signed(r.v, byte_count))

\* implement_write_signed: self.$unsigned_name(value as $unsigned_ty)
implement_write_signed(s, value, byte_count, order) ==
    WriteExt_unsigned(s, as_unsigned(value, byte_count), byte_count, order)

\* The functions of ReadExt and WriteExt: width, byte order (a single byte
\* has none; it is drawn all the same), signed or not.
IoFunctions == [byte_count : {1, 2, 4, 8, 16}, order : {"le", "be"}, signed : BOOLEAN]

ReadExt_read(s, fn) ==
    IF fn.signed
    THEN implement_read_signed(ReadExt_unsigned(s, fn.byte_count, fn.order), fn.byte_count)
    ELSE ReadExt_unsigned(s, fn.byte_count, fn.order)

WriteExt_write(s, val, fn) ==
    IF fn.signed THEN implement_write_signed(s, val, fn.byte_count, fn.order)
    ELSE WriteExt_unsigned(s, val, fn.byte_count, fn.order)

\* Streams to read from: one byte fewer than the width, the width, one byte
\* more; all ones, all zeros, each byte different, only the first or only
\* the last byte with its high bit.
IoStreams(byte_count) ==
    { [i \in 1..len |-> pattern[i]] :
        len \in { l \in {byte_count - 1, byte_count, byte_count + 1} : l >= 0 },
        pattern \in { [i \in 1..17 |-> 255], [i \in 1..17 |-> 0], [i \in 1..17 |-> i],
                      [i \in 1..17 |-> IF i = 1 THEN 128 ELSE 0],
                      [i \in 1..17 |-> IF i = byte_count THEN 128 ELSE 1] } }

\* Unsigned values to write: zero, one, the greatest, the high bit alone,
\* each limb different.
IoUnsigned(byte_count) ==
    IF byte_count = 1 THEN {0, 1, 127, 128, 255}
    ELSE IF byte_count = 2 THEN {0, 1, 258, 32768, 65535}
    ELSE { [k \in 1..(byte_count \div 2) |-> limbs[k]] :
             limbs \in { [k \in 1..8 |-> 0], [k \in 1..8 |-> IF k = 1 THEN 1 ELSE 0],
                         [k \in 1..8 |-> 65535], [k \in 1..8 |-> 256 * k + 1],
                         [k \in 1..8 |-> IF k = byte_count \div 2 THEN 32768 ELSE 0] } }

\* zero and the high bit alone, as unsigned values of a width
IoZero(byte_count) ==
    IF byte_count <= 2 THEN 0 ELSE [k \in 1..(byte_count \div 2) |-> 0]

IoHighBit(byte_count) ==
    IF byte_count = 1 THEN 128
    ELSE IF byte_count = 2 THEN 32768
    ELSE [k \in 1..(byte_count \div 2) |-> IF k = byte_count \div 2 THEN 32768 ELSE 0]

\* Signed values to write: a non-negative one has a magnitude without the
\* high bit; a negative one a magnitude that is not zero and at most the
\* high bit alone (the least value of the type).
IoSigned(byte_count) ==
    { [negative |-> FALSE, magnitude |-> m] :
        m \in { v \in IoUnsigned(byte_count) : ~sign_bit(v, byte_count) } }
    \cup
    { [negative |-> TRUE, magnitude |-> m] :
        m \in { v \in IoUnsigned(byte_count) :
                  /\ v # IoZero(byte_count)
                  /\ ~sign_bit(v, byte_count) \/ v = IoHighBit(byte_count) } }

IoInit ==
    /\ \E fn \in IoFunctions :
          \/ \E data \in IoStreams(fn.byte_count), p \in {0, 1} :
                 /\ p <= Len(data)
                 /\ file_on_disk = Stream(data, p)
                 /\ last = Call("stream", p, Ok(file_on_disk, [fn |-> fn]), data)
          \/ \E val \in IF fn.signed THEN IoSigned(fn.byte_count)
                        ELSE IoUnsigned(fn.byte_count) :
                 /\ file_on_disk = Stream(<<>>, 0)
                 /\ last = Call("value", 0, Ok(file_on_disk, [fn |-> fn, val |-> val]), <<>>)
    /\ initial_length = Len(file_on_disk.data)
    /\ sequel = [rel |-> "other", was |-> <<>>]

\* the function returns r; the caller keeps what it called it with
IoReturns(op, offset, r) ==
    /\ file_on_disk' = Stream(r.s.data, r.s.pos)
    /\ last' = Call(op, offset, r, file_on_disk.data)
    /\ sequel' = [rel |-> "of", was |-> IF last.op = "write" THEN sequel.was ELSE last.v]
    /\ UNCHANGED initial_length

\* a read where the stream stands
IoRead ==
    /\ last.op = "stream"
    /\ IoReturns("read", file_on_disk.pos, ReadExt_read(file_on_disk, last.v.fn))

\* a write to an empty stream
IoWrite ==
    /\ last.op = "value"
    /\ IoReturns("write", 0, WriteExt_write(file_on_disk, last.v.val, last.v.fn))

\* the bytes written, read from their start by the matching function
IoReadBack ==
    /\ last.op = "write"
    /\ last.res = "Ok"
    /\ IoReturns("read_back", 0,
                 ReadExt_read(Stream(file_on_disk.data, 0), sequel.was.fn))

IoNext ==
    \/ IoRead
    \/ IoWrite
    \/ IoReadBack

IoSpec == IoInit /\ [][IoNext]_vars

\* the function called, its width, and the value written
Fn        == sequel.was.fn
ByteCount == Fn.byte_count

\* The byte of significance j (0 for the least) among the bytes the read
\* took from the stream: in little-endian order the j-th after the cursor,
\* in big-endian order the j-th from the end of the ByteCount bytes.
ReadByte(j) ==
    last.before[last.offset + (IF Fn.order = "le" THEN j + 1 ELSE ByteCount - j)]

\* the byte of significance j of an unsigned value
ValueByte(val, j) ==
    IF ByteCount = 1 THEN val
    ELSE IF ByteCount = 2 THEN IF j = 0 THEN val % 256 ELSE val \div 256
    ELSE IF j % 2 = 0 THEN val[j \div 2 + 1] % 256 ELSE val[j \div 2 + 1] \div 256

\* the carry out of byte j when the magnitude is added to the bytes read
RECURSIVE CarryOut(_, _)
CarryOut(magnitude, j) ==
    IF j < 0 THEN 0
    ELSE (ValueByte(magnitude, j) + ReadByte(j) + CarryOut(magnitude, j - 1)) \div 256

\* magnitude + the bytes read = 2^(8 * ByteCount): every byte of the sum is
\* zero and the last carry is one
SumsToPowerOfTwo(magnitude) ==
    /\ \A j \in 0..(ByteCount - 1) :
           (ValueByte(magnitude, j) + ReadByte(j) + CarryOut(magnitude, j - 1)) % 256 = 0
    /\ CarryOut(magnitude, ByteCount - 1) = 1

\* The value read is the one the bytes stand for: unsigned, byte for byte;
\* signed, in two's complement (non-negative with the high bit clear and
\* the bytes as magnitude, negative with the high bit set and the magnitude
\* that sums with the bytes to 2^(8 * ByteCount)).
ValueOfBytes(val) ==
    IF ~Fn.signed
    THEN \A j \in 0..(ByteCount - 1) : ValueByte(val, j) = ReadByte(j)
    ELSE IF ReadByte(ByteCount - 1) < 128
    THEN /\ ~val.negative
         /\ \A j \in 0..(ByteCount - 1) : ValueByte(val.magnitude, j) = ReadByte(j)
    ELSE /\ val.negative
         /\ SumsToPowerOfTwo(val.magnitude)

\* C30: for every width N in {1, 2, 4, 8, 16} bytes and both byte orders, a
\* read advances the stream by exactly N bytes or fails without returning a
\* value; a write emits exactly N bytes, and write followed by read in the
\* same byte order returns the written value; each signed read and write is
\* the two's-complement reinterpretation of the unsigned one.
C30_ReadExtWriteExt ==
    /\ last.op = "read"
       => IF last.offset + ByteCount <= Len(last.before)
          THEN /\ last.res = "Ok"
               /\ file_on_disk.pos = last.offset + ByteCount
               /\ file_on_disk.data = last.before
               /\ ValueOfBytes(last.v)
          ELSE /\ last.res = "Io"
               /\ last.v = <<>>
    /\ last.op = "write"
       => /\ last.res = "Ok"
          /\ Len(file_on_disk.data) = ByteCount
          /\ file_on_disk.pos = ByteCount
          /\ last.writes = 1
    /\ last.op = "read_back"
       => /\ last.res = "Ok"
          /\ last.v = sequel.was.val
          /\ file_on_disk.pos = ByteCount
          /\ ValueOfBytes(last.v)

\* the bytes FF FF FF FF were read as i32, little-endian, and gave -1
C30_Witness ==
    /\ last.op = "read"
    /\ Fn = [byte_count |-> 4, order |-> "le", signed |-> TRUE]
    /\ last.res = "Ok"
    /\ SubSeq(last.before, last.offset + 1, last.offset + 4) = <<255, 255, 255, 255>>
    /\ last.v = [negative |-> TRUE, magnitude |-> <<1, 0>>]

\* the least i128 was written big-endian and read back
LeastI128RoundTrip ==
    /\ last.op = "read_back"
    /\ Fn = [byte_count |-> 16, order |-> "be", signed |-> TRUE]
    /\ file_on_disk.data = <<128, 0, 0, 0, 0, 0, 0, 0, 0, 0, 0, 0, 0, 0, 0, 0>>
    /\ last.v = [negative |-> TRUE, magnitude |-> <<0, 0, 0, 0, 0, 0, 0, 32768>>]

\* a u16 read big-endian from 01 02 gives 0x0102
BigEndianU16 ==
    /\ last.op = "read"
    /\ Fn = [byte_count |-> 2, order |-> "be", signed |-> FALSE]
    /\ last.offset = 0
    /\ last.res = "Ok"
    /\ SubSeq(last.before, 1, 2) = <<1, 2>>
    /\ last.v = 258

=============================================================================
